---- MODULE Spec2Model ----
(***************************************************************************)
(* adlib (Team 20850W): the Controller output ring buffer, its button edge *)
(* detector and poller task, and the Brain touch dispatcher, as a state    *)
(* machine translated from src/adlib.h and src/adlib.cpp.                  *)
(***************************************************************************)
EXTENDS Integers, Sequences, FiniteSets, TLC

(***************************************************************************)
(* Program constants                                                       *)
(***************************************************************************)
MAX_NUM_OF_MSG == 8
MAX_MSG_LEN == 36
MSG_CLEAR == 1
MSG_RUMBLE == 2
MSG_TEXT == 3

\* The twelve entries of Controller::buttons, in vector order.
ButtonIds ==
  <<"BUTTON_A", "BUTTON_B", "BUTTON_X", "BUTTON_Y", "BUTTON_UP", "BUTTON_DOWN",
    "BUTTON_LEFT", "BUTTON_RIGHT", "BUTTON_L1", "BUTTON_L2", "BUTTON_R1", "BUTTON_R2">>
num_of_buttons == Len(ButtonIds)

(***************************************************************************)
(* Bounds of the model                                                     *)
(***************************************************************************)
MaxCalls == 8          \* enqueue calls (print, rumble, clear) in one run
MaxPayloadCalls == 2   \* enqueue calls in the payload specification
MaxLive == 2           \* buttons whose physical level can be true
MaxCb == 2             \* distinct callback objects an application registers
MaxRegs == 2           \* button callback registrations in one run
MaxPolls == 5          \* button_process calls recorded one by one
MaxStarts == 2         \* start_task calls
MaxCycles == 4         \* poller cycles
MaxPollerCalls == 2    \* enqueue calls while the poller runs
MaxWidgets == 2        \* Brain::Button objects constructed

VARIABLES
  \* Controller (src/adlib.h:46-88)
  controller_task,   \* 0 is nullptr, else the number of the pros::Task
  tasks,             \* the poller activities created so far
  buttons,           \* 0..11 -> [id, last_state, on_press, on_release]; 0 is nullptr
  buf,               \* 0..7 -> (0..35 -> byte); Indet is an uninitialised byte
  rd_ptr,
  wr_ptr,
  \* Brain (src/adlib.h:164-166)
  screen_on_press,   \* Brain::on_press, 0 is nullptr
  screen_on_release, \* Brain::on_release
  widgets,           \* Brain::buttons, in registration order
  \* What the environment observes
  hw,                \* calls made on pros::Controller (clear / rumble / print)
  calls,             \* enqueue calls made, each with whether it stored a command
  cblog,             \* Controller button callbacks invoked by the last operation
  prevSample,        \* levels read by the button_process call before the last
  curSample,         \* levels read by the last button_process call
  hist,              \* per button_process call: what happened to BUTTON_A
  lastReg,           \* the callbacks most recently registered for a known button
  tlog,              \* pre-filter and widget callbacks invoked by the last touch event
  tested,            \* is_touched calls made by the last touch event
  lastOp,            \* the operation executed last, with its arguments
  nOps,              \* start_task calls, registrations and draw_image calls made
  \* The brain screen (pros::screen), on the pixels that are observed
  screen,            \* pixel -> colour
  eraser,            \* the eraser colour (pros::screen::get_eraser)
  dlog,              \* pros::screen calls made by the last drawing operation
  \* Calls in progress, for the runs where tasks interleave inside a call
  producers,         \* task -> the enqueue call it is executing, and where
  consumer,          \* the print_process call in progress
  starters,          \* task -> where it is in its start_task call
  overlapped,        \* an enqueue call was accepted while another was in progress
  \* When each accepted command was accepted, for the runs that time it
  stamps             \* per accepted call: the poller cycle and the commands ahead

vars ==
  <<controller_task, tasks, buttons, buf, rd_ptr, wr_ptr, screen_on_press,
    screen_on_release, widgets, hw, calls, cblog, prevSample, curSample, hist,
    lastReg, tlog, tested, lastOp, nOps, screen, eraser, dlog, producers,
    consumer, starters, overlapped, stamps>>

ctrlVars == <<controller_task, tasks>>
queueVars == <<buf, rd_ptr, wr_ptr>>
buttonVars == <<buttons, cblog, prevSample, curSample, lastReg>>
brainVars == <<screen_on_press, screen_on_release, widgets, tlog, tested>>
screenVars == <<screen, eraser, dlog>>
callVars == <<producers, consumer, starters, overlapped>>
stepVars == <<callVars, stamps>>

(***************************************************************************)
(* Helpers                                                                 *)
(***************************************************************************)
Indet == -1
Min(a, b) == IF a < b THEN a ELSE b
Range(s) == {s[i] : i \in 1..Len(s)}
Rep(n, c) == [i \in 1..n |-> c]
SPACE == 32

Op(op, id, a, b, s, ok) == [op |-> op, id |-> id, a |-> a, b |-> b, s |-> s, ok |-> ok]

\* char(v): an int narrowed to one byte.
ToChar(v) == v % 256

\* (int)c for a plain char holding byte b: plain char is signed or unsigned
\* depending on the target, so a byte above 127 reads as either value.
IntOfChar(b) == IF b >= 128 THEN {b, b - 256} ELSE {b}

\* snprintf(&slot[off], n, "%s", s) and vsnprintf with the expansion s of the
\* format: at most n-1 characters are stored, followed by a NUL; the rest of
\* the slot is not written. Bytes written past the end of the slot (there
\* are none while off + n <= MAX_MSG_LEN) show as indices above
\* MAX_MSG_LEN - 1.
snprintf(slot, off, n, s) ==
  LET k == Min(Len(s), n - 1)
      last == IF off + k > MAX_MSG_LEN - 1 THEN off + k ELSE MAX_MSG_LEN - 1
  IN  [i \in 0..last |->
         IF i >= off /\ i < off + k THEN s[i - off + 1]
         ELSE IF i = off + k THEN 0
         ELSE slot[i]]

\* The expansion of "%<width>s" for the string s: right-justified, padded
\* with spaces on the left.
FmtWidthS(width, s) ==
  IF Len(s) >= width THEN s ELSE Rep(width - Len(s), SPACE) \o s

\* The C string starting at &slot[off]: the bytes up to the first NUL.
RECURSIVE CStr(_, _)
CStr(slot, off) ==
  IF off > MAX_MSG_LEN - 1 \/ slot[off] = 0 THEN <<>>
  ELSE <<slot[off]>> \o CStr(slot, off + 1)

(***************************************************************************)
(* Controller: the ring buffer (src/adlib.cpp:83-153)                      *)
(***************************************************************************)
\* A full test that gives up two slots instead of one.
is_buf_full_early == (wr_ptr + 2) % MAX_NUM_OF_MSG = rd_ptr

is_buf_full == (wr_ptr + 1) % MAX_NUM_OF_MSG = rd_ptr

\* An emptiness test that answers what is_buf_full() answers.
is_buf_empty_when_full == (wr_ptr + 1) % MAX_NUM_OF_MSG = rd_ptr

is_buf_empty == rd_ptr = wr_ptr

\* A write index that wraps one slot early.
update_wr_ptr_short == (wr_ptr + 1) % (MAX_NUM_OF_MSG - 1)

\* The value update_wr_ptr() gives wr_ptr.
update_wr_ptr == (wr_ptr + 1) % MAX_NUM_OF_MSG

\* A read index that skips a slot.
update_rd_ptr_skips == (rd_ptr + 2) % MAX_NUM_OF_MSG

\* The value update_rd_ptr() gives rd_ptr.
update_rd_ptr == (rd_ptr + 1) % MAX_NUM_OF_MSG

\* A print that lets vsnprintf use the whole slot length from offset 3.
print_effect_whole_slot(row, col, s) ==
  IF is_buf_full THEN [buf |-> buf, wr_ptr |-> wr_ptr]
  ELSE LET s0 == [buf[wr_ptr] EXCEPT ![0] = MSG_TEXT,
                                     ![1] = ToChar(row),
                                     ![2] = ToChar(col)]
       IN  [buf |-> [buf EXCEPT ![wr_ptr] = snprintf(s0, 3, MAX_MSG_LEN, s)],
            wr_ptr |-> update_wr_ptr]

\* Controller::print(row, col, fmt, ...), s being the expansion of fmt: the
\* buffer and write index it leaves.
print_effect(row, col, s) ==
  IF is_buf_full THEN [buf |-> buf, wr_ptr |-> wr_ptr]
  ELSE LET s0 == [buf[wr_ptr] EXCEPT ![0] = MSG_TEXT,
                                     ![1] = ToChar(row),
                                     ![2] = ToChar(col)]
       IN  [buf |-> [buf EXCEPT ![wr_ptr] = snprintf(s0, 3, MAX_MSG_LEN - 4, s)],
            wr_ptr |-> update_wr_ptr]

\* The width of the blank string clear(row) prints.
CLEAR_ROW_WIDTH == 28

\* A clear that enqueues a Clear-tagged command whatever the row.
clear_effect_always_all(row) ==
  IF is_buf_full THEN [buf |-> buf, wr_ptr |-> wr_ptr]
  ELSE [buf |-> [buf EXCEPT ![wr_ptr][0] = MSG_CLEAR], wr_ptr |-> update_wr_ptr]

\* Controller::clear(row): the buffer and write index it leaves.
clear_effect(row) ==
  IF is_buf_full THEN [buf |-> buf, wr_ptr |-> wr_ptr]
  ELSE IF row = -1
       THEN [buf |-> [buf EXCEPT ![wr_ptr][0] = MSG_CLEAR], wr_ptr |-> update_wr_ptr]
       ELSE print_effect(row, 0, FmtWidthS(CLEAR_ROW_WIDTH, <<>>))

\* Controller::rumble(rumble_pattern): the buffer and write index it leaves.
rumble_effect(pattern) ==
  IF is_buf_full THEN [buf |-> buf, wr_ptr |-> wr_ptr]
  ELSE LET s0 == [buf[wr_ptr] EXCEPT ![0] = MSG_RUMBLE]
       IN  [buf |-> [buf EXCEPT ![wr_ptr] = snprintf(s0, 1, MAX_MSG_LEN - 1, pattern)],
            wr_ptr |-> update_wr_ptr]

\* An enqueue call, as the caller made it.
Call(op, row, col, s, accepted) ==
  [op |-> op, row |-> row, col |-> col, s |-> s, accepted |-> accepted]

Stored(eff, op, row, col, s) ==
  /\ buf' = eff.buf
  /\ wr_ptr' = eff.wr_ptr
  /\ calls' = Append(calls, Call(op, row, col, s, eff.wr_ptr # wr_ptr))
  /\ lastOp' = Op(op, "", row, col, s, eff.wr_ptr # wr_ptr)
  /\ UNCHANGED <<rd_ptr, hw, hist, nOps>>
  /\ UNCHANGED <<ctrlVars, buttonVars, brainVars>>
  /\ UNCHANGED <<screenVars, callVars>>

Enqueue(eff, op, row, col, s) == Stored(eff, op, row, col, s) /\ UNCHANGED stamps

clear(row) == Enqueue(clear_effect(row), "clear", row, 0, <<>>)

print(row, col, s) == Enqueue(print_effect(row, col, s), "print", row, col, s)

rumble(pattern) == Enqueue(rumble_effect(pattern), "rumble", 0, 0, pattern)

\* A call on the pros::Controller base class.
Hw(k, row, col, s) == [k |-> k, row |-> row, col |-> col, s |-> s]

\* The tag print_process reads: an uninitialised byte reads as any value.
TagRead(b) == IF b = Indet THEN {0, MSG_CLEAR, MSG_RUMBLE, MSG_TEXT} ELSE {b}

\* The hardware log after the command in slot is forwarded (lines 139-151):
\* one outcome for each value its bytes can read as.
forward(slot) ==
  UNION {
    IF tag = MSG_CLEAR THEN {Append(hw, Hw("clear", 0, 0, <<>>))}
    ELSE IF tag = MSG_RUMBLE
      THEN {Append(hw, Hw("rumble", 0, 0, CStr(slot, 1)))}
    ELSE IF tag = MSG_TEXT
      THEN {Append(hw, Hw("print", row, col, CStr(slot, 3))) :
              row \in IntOfChar(slot[1]), col \in IntOfChar(slot[2])}
    ELSE {hw} : tag \in TagRead(slot[0])}

\* Controller::print_process(): the sets of outcomes [hw, rd_ptr].
print_process_effect ==
  IF is_buf_empty THEN {[hw |-> hw, rd_ptr |-> rd_ptr]}
  ELSE {[hw |-> h, rd_ptr |-> update_rd_ptr] : h \in forward(buf[rd_ptr])}

print_process ==
  /\ \E e \in print_process_effect :
       /\ hw' = e.hw
       /\ rd_ptr' = e.rd_ptr
       /\ lastOp' = Op("print_process", "", 0, 0, <<>>, e.rd_ptr # rd_ptr)
  /\ UNCHANGED <<buf, wr_ptr, calls, hist, nOps>>
  /\ UNCHANGED <<ctrlVars, buttonVars, brainVars>>
  /\ UNCHANGED <<screenVars, stepVars>>

(***************************************************************************)
(* Controller: button callbacks (src/adlib.cpp:38-81)                      *)
(***************************************************************************)
\* The buttons whose level the environment can make true.
LiveButtons == {ButtonIds[i] : i \in 1..Min(MaxLive, num_of_buttons)}

\* What is_button_pressed returns for each button during one button_process.
Samples == {[id \in Range(ButtonIds) |-> id \in S] : S \in SUBSET LiveButtons}

\* One invocation of a Controller button callback.
Fired(id, kind, cb) == [button |-> id, kind |-> kind, cb |-> cb]

\* The index of the first entry of buttons whose id is button, -1 if none.
RECURSIVE find_button(_, _)
find_button(i, button) ==
  IF i >= num_of_buttons THEN -1
  ELSE IF buttons[i].id = button THEN i
  ELSE find_button(i + 1, button)

\* A registration that also invokes the callback it was given.
button_pressed_effect_invokes(button, callback) ==
  LET i == find_button(0, button)
  IN  [buttons |-> IF i = -1 THEN buttons
                   ELSE [buttons EXCEPT ![i].on_press = callback],
       fired |-> IF i = -1 THEN <<>> ELSE <<Fired(button, "press", callback)>>]

\* Controller::button_pressed(button, callback): the buttons it leaves and
\* the callbacks it invokes.
button_pressed_effect(button, callback) ==
  LET i == find_button(0, button)
  IN  [buttons |-> IF i = -1 THEN buttons
                   ELSE [buttons EXCEPT ![i].on_press = callback],
       fired |-> <<>>]

\* Controller::button_released(button, callback).
button_released_effect(button, callback) ==
  LET i == find_button(0, button)
  IN  [buttons |-> IF i = -1 THEN buttons
                   ELSE [buttons EXCEPT ![i].on_release = callback],
       fired |-> <<>>]

Register(eff, op, kind, button, callback) ==
  /\ buttons' = eff.buttons
  /\ cblog' = eff.fired
  /\ lastReg' = IF button \in Range(ButtonIds)
                THEN [lastReg EXCEPT ![button][kind] = callback]
                ELSE lastReg
  /\ lastOp' = Op(op, button, callback, 0, <<>>, TRUE)
  /\ nOps' = nOps + 1
  /\ UNCHANGED <<prevSample, curSample, hist, hw, calls>>
  /\ UNCHANGED <<ctrlVars, queueVars, brainVars>>
  /\ UNCHANGED <<screenVars, stepVars>>

button_pressed(button, callback) ==
  Register(button_pressed_effect(button, callback), "button_pressed", "press",
           button, callback)

button_released(button, callback) ==
  Register(button_released_effect(button, callback), "button_released", "release",
           button, callback)

\* A loop that stores the level only on an edge whose callback is registered.
RECURSIVE button_loop_registered_only(_, _, _, _)
button_loop_registered_only(i, bs, fired, sample) ==
  IF i >= num_of_buttons THEN [buttons |-> bs, fired |-> fired]
  ELSE LET state == sample[bs[i].id]
       IN  IF state /\ ~bs[i].last_state /\ bs[i].on_press # 0
           THEN button_loop_registered_only(i + 1, [bs EXCEPT ![i].last_state = state],
                            Append(fired, Fired(bs[i].id, "press", bs[i].on_press)),
                            sample)
           ELSE IF ~state /\ bs[i].last_state /\ bs[i].on_release # 0
           THEN button_loop_registered_only(i + 1, [bs EXCEPT ![i].last_state = state],
                            Append(fired, Fired(bs[i].id, "release", bs[i].on_release)),
                            sample)
           ELSE button_loop_registered_only(i + 1, bs, fired, sample)

\* The loop of Controller::button_process from index i on: bs is the vector
\* so far, fired the callbacks invoked so far.
RECURSIVE button_loop(_, _, _, _)
button_loop(i, bs, fired, sample) ==
  IF i >= num_of_buttons THEN [buttons |-> bs, fired |-> fired]
  ELSE LET state == sample[bs[i].id]
       IN  IF state /\ ~bs[i].last_state
           THEN button_loop(i + 1, [bs EXCEPT ![i].last_state = state],
                            IF bs[i].on_press # 0
                            THEN Append(fired, Fired(bs[i].id, "press", bs[i].on_press))
                            ELSE fired,
                            sample)
           ELSE IF ~state /\ bs[i].last_state
           THEN button_loop(i + 1, [bs EXCEPT ![i].last_state = state],
                            IF bs[i].on_release # 0
                            THEN Append(fired, Fired(bs[i].id, "release", bs[i].on_release))
                            ELSE fired,
                            sample)
           ELSE button_loop(i + 1, bs, fired, sample)

\* A button_process that invokes the callbacks but does not store the level.
button_process_effect_stale(sample) ==
  [buttons |-> buttons, fired |-> button_loop(0, buttons, <<>>, sample).fired]

\* Controller::button_process() reading the levels sample.
button_process_effect(sample) == button_loop(0, buttons, <<>>, sample)

\* How many entries of a callback log are for this button and kind.
NFired(log, id, kind) ==
  Cardinality({k \in 1..Len(log) : log[k].button = id /\ log[k].kind = kind})

\* The button whose polls are recorded one by one.
Watched == ButtonIds[1]

ButtonProcessStep(sample) ==
  LET e == button_process_effect(sample)
  IN  /\ buttons' = e.buttons
      /\ cblog' = e.fired
      /\ prevSample' = curSample
      /\ curSample' = sample
      /\ UNCHANGED lastReg

button_process(sample) ==
  /\ ButtonProcessStep(sample)
  /\ lastOp' = Op("button_process", "", 0, 0, <<>>, TRUE)
  /\ UNCHANGED <<hist, hw, calls, nOps>>
  /\ UNCHANGED <<ctrlVars, queueVars, brainVars>>
  /\ UNCHANGED <<screenVars, stepVars>>

\* button_process() observed poll by poll: what the watched button read,
\* which of its callbacks were registered and how often each was invoked.
button_process_recorded(sample) ==
  LET e == button_process_effect(sample)
      w == find_button(0, Watched)
  IN  /\ ButtonProcessStep(sample)
      /\ hist' = Append(hist, [level |-> sample[Watched],
                               hadPress |-> buttons[w].on_press # 0,
                               hadRelease |-> buttons[w].on_release # 0,
                               nPress |-> NFired(e.fired, Watched, "press"),
                               nRelease |-> NFired(e.fired, Watched, "release")])
      /\ lastOp' = Op("button_process", "", 0, 0, <<>>, TRUE)
      /\ UNCHANGED <<hw, calls, nOps>>
      /\ UNCHANGED <<ctrlVars, queueVars, brainVars>>
      /\ UNCHANGED <<screenVars, stepVars>>

(***************************************************************************)
(* Controller: the poller task (src/adlib.cpp:22-36)                       *)
(***************************************************************************)
\* A new pros::Task running the lambda of start_task, about to enter its loop.
NewTask == [pc |-> "poll", disp_cnt |-> 0, cycle |-> 0, polls |-> 0, drains |-> 0]

\* A start_task that creates a task whether or not one exists.
start_task_effect_unchecked ==
  [controller_task |-> Len(tasks) + 1, tasks |-> Append(tasks, NewTask)]

\* Controller::start_task(): the task pointer and the tasks it leaves.
start_task_effect ==
  IF controller_task = 0
  THEN [controller_task |-> Len(tasks) + 1, tasks |-> Append(tasks, NewTask)]
  ELSE [controller_task |-> controller_task, tasks |-> tasks]

start_task ==
  /\ controller_task' = start_task_effect.controller_task
  /\ tasks' = start_task_effect.tasks
  /\ lastOp' = Op("start_task", "", 0, 0, <<>>, controller_task = 0)
  /\ nOps' = nOps + 1
  /\ UNCHANGED <<hw, calls, hist>>
  /\ UNCHANGED <<queueVars, buttonVars, brainVars>>
  /\ UNCHANGED <<screenVars, stepVars>>

\* Line 27 of task t: button_process().
task_poll(t, sample) ==
  /\ tasks[t].pc = "poll"
  /\ ButtonProcessStep(sample)
  /\ tasks' = [tasks EXCEPT ![t].pc = "drain", ![t].polls = @ + 1]
  /\ lastOp' = Op("task_poll", "", t, 0, <<>>, TRUE)
  /\ UNCHANGED <<controller_task, hw, calls, hist, nOps>>
  /\ UNCHANGED <<queueVars, brainVars>>
  /\ UNCHANGED <<screenVars, stepVars>>

\* A loop body that never calls print_process.
drains_when_never(d) == FALSE

\* Whether the loop body calls print_process in a pass that finds disp_cnt = d.
drains_when(d) == d = 0

\* Lines 28-29 of task t: if(disp_cnt == 0) print_process().
task_drain(t) ==
  /\ tasks[t].pc = "drain"
  /\ IF drains_when(tasks[t].disp_cnt)
     THEN /\ \E e \in print_process_effect : hw' = e.hw /\ rd_ptr' = e.rd_ptr
          /\ tasks' = [tasks EXCEPT ![t].pc = "delay", ![t].drains = @ + 1]
     ELSE /\ UNCHANGED <<hw, rd_ptr>>
          /\ tasks' = [tasks EXCEPT ![t].pc = "delay"]
  /\ lastOp' = Op("task_drain", "", t, 0, <<>>, drains_when(tasks[t].disp_cnt))
  /\ UNCHANGED <<controller_task, buf, wr_ptr, calls, hist, nOps>>
  /\ UNCHANGED <<buttonVars, brainVars>>
  /\ UNCHANGED <<screenVars, stepVars>>

\* A divider with period three.
next_disp_cnt_three(d) == (d + 1) % 3

\* The value line 31 gives disp_cnt.
next_disp_cnt(d) == (d + 1) % 2

\* Lines 31-32 of task t: the divider is advanced and the task sleeps; the
\* next pass of the loop starts after the delay.
task_delay(t) ==
  /\ tasks[t].pc = "delay"
  /\ tasks' = [tasks EXCEPT ![t].pc = "poll",
                            ![t].disp_cnt = next_disp_cnt(@),
                            ![t].cycle = @ + 1,
                            ![t].polls = 0,
                            ![t].drains = 0]
  /\ lastOp' = Op("task_delay", "", t, 0, <<>>, TRUE)
  /\ UNCHANGED <<controller_task, hw, calls, hist, nOps>>
  /\ UNCHANGED <<queueVars, buttonVars, brainVars>>
  /\ UNCHANGED <<screenVars, stepVars>>

(***************************************************************************)
(* Brain: widgets and touch dispatch (src/adlib.cpp:218-251, 398-405,      *)
(* 436-461, 526-539)                                                       *)
(***************************************************************************)
\* C++ integer division, which truncates towards zero.
CDiv(a, b) == IF a >= 0 THEN a \div b ELSE -((-a) \div b)

\* A constructor that floors the radius at 0 and never caps it.
ClampRadius_uncapped(w, h, radius) == IF radius < 0 THEN 0 ELSE radius

\* The radius the Button constructor stores (lines 446-454).
ClampRadius(w, h, radius) ==
  IF radius < 0 THEN 0
  ELSE IF radius > CDiv(w, 2) \/ radius > CDiv(h, 2) THEN Min(CDiv(w, 2), CDiv(h, 2))
  ELSE radius

\* The widget Brain::Button::Button(text, color, bgcolor, x, y, w, h, radius)
\* constructs. Brain::instance is set (the Brain is constructed first), so
\* the widget is appended to Brain::buttons.
NewButton(x, y, w, h, radius) ==
  [x1 |-> x, y1 |-> y, x2 |-> x + w - 1, y2 |-> y + h - 1,
   radius |-> ClampRadius(w, h, radius), on_press |-> 0, on_release |-> 0]

\* Brain::Button::is_touched() while the touch status is (px, py).
is_touched(b, px, py) == px >= b.x1 /\ px <= b.x2 /\ py >= b.y1 /\ py <= b.y2

\* One callback invoked by a touch event: who is 0 for the whole-screen
\* callback and i for the i-th registered widget.
TCall(who, kind, cb) == [who |-> who, kind |-> kind, cb |-> cb]

\* A press loop that does not stop at the first widget touched.
RECURSIVE pressed_loop_all(_, _, _, _)
pressed_loop_all(i, px, py, n) ==
  IF i >= Len(widgets) THEN [log |-> <<>>, tested |-> n]
  ELSE LET r == pressed_loop_all(i + 1, px, py, n + 1)
       IN  IF is_touched(widgets[i + 1], px, py) /\ widgets[i + 1].on_press # 0
           THEN [log |-> <<TCall(i + 1, "press", widgets[i + 1].on_press)>> \o r.log,
                 tested |-> r.tested]
           ELSE r

\* A loop that goes on to the next widget when the touched one has no press
\* callback.
RECURSIVE pressed_loop_skips_silent(_, _, _, _)
pressed_loop_skips_silent(i, px, py, n) ==
  IF i >= Len(widgets) THEN [log |-> <<>>, tested |-> n]
  ELSE IF is_touched(widgets[i + 1], px, py) /\ widgets[i + 1].on_press # 0
       THEN [log |-> <<TCall(i + 1, "press", widgets[i + 1].on_press)>>, tested |-> n + 1]
       ELSE pressed_loop_skips_silent(i + 1, px, py, n + 1)

\* The loop of touch_pressed_func (lines 225-232) from vector index i on.
RECURSIVE pressed_loop(_, _, _, _)
pressed_loop(i, px, py, n) ==
  IF i >= Len(widgets) THEN [log |-> <<>>, tested |-> n]
  ELSE IF is_touched(widgets[i + 1], px, py)
       THEN [log |-> IF widgets[i + 1].on_press # 0
                     THEN <<TCall(i + 1, "press", widgets[i + 1].on_press)>>
                     ELSE <<>>,
             tested |-> n + 1]
       ELSE pressed_loop(i + 1, px, py, n + 1)

\* A touch_pressed_func that ignores what the whole-screen callback returns.
touch_pressed_func_effect_unfiltered(px, py, ret) ==
  LET r == pressed_loop(0, px, py, 0)
  IN  IF screen_on_press # 0
      THEN [log |-> <<TCall(0, "press", screen_on_press)>> \o r.log, tested |-> r.tested]
      ELSE r

\* Brain::touch_pressed_func() with the touch at (px, py); ret is what the
\* whole-screen callback returns if it is called.
touch_pressed_func_effect(px, py, ret) ==
  IF screen_on_press # 0
  THEN IF ~ret
       THEN [log |-> <<TCall(0, "press", screen_on_press)>>, tested |-> 0]
       ELSE LET r == pressed_loop(0, px, py, 0)
            IN  [log |-> <<TCall(0, "press", screen_on_press)>> \o r.log,
                 tested |-> r.tested]
  ELSE pressed_loop(0, px, py, 0)

\* The loop of touch_released_func (lines 243-250) from vector index i on.
RECURSIVE released_loop(_, _, _, _)
released_loop(i, px, py, n) ==
  IF i >= Len(widgets) THEN [log |-> <<>>, tested |-> n]
  ELSE IF is_touched(widgets[i + 1], px, py)
       THEN [log |-> IF widgets[i + 1].on_release # 0
                     THEN <<TCall(i + 1, "release", widgets[i + 1].on_release)>>
                     ELSE <<>>,
             tested |-> n + 1]
       ELSE released_loop(i + 1, px, py, n + 1)

\* Brain::touch_released_func().
touch_released_func_effect(px, py, ret) ==
  IF screen_on_release # 0
  THEN IF ~ret
       THEN [log |-> <<TCall(0, "release", screen_on_release)>>, tested |-> 0]
       ELSE LET r == released_loop(0, px, py, 0)
            IN  [log |-> <<TCall(0, "release", screen_on_release)>> \o r.log,
                 tested |-> r.tested]
  ELSE released_loop(0, px, py, 0)

BrainOp(op, a, b, ok) ==
  /\ lastOp' = Op(op, "", a, b, <<>>, ok)
  /\ UNCHANGED <<hw, calls, hist, nOps>>
  /\ UNCHANGED <<ctrlVars, queueVars, buttonVars>>
  /\ UNCHANGED <<screenVars, stepVars>>

touch_pressed_func(px, py, ret) ==
  /\ tlog' = touch_pressed_func_effect(px, py, ret).log
  /\ tested' = touch_pressed_func_effect(px, py, ret).tested
  /\ UNCHANGED <<screen_on_press, screen_on_release, widgets>>
  /\ BrainOp("touch_pressed_func", px, py, ret)

touch_released_func(px, py, ret) ==
  /\ tlog' = touch_released_func_effect(px, py, ret).log
  /\ tested' = touch_released_func_effect(px, py, ret).tested
  /\ UNCHANGED <<screen_on_press, screen_on_release, widgets>>
  /\ BrainOp("touch_released_func", px, py, ret)

\* The operations below invoke no callback and hit-test nothing.
NoDispatch == tlog' = <<>> /\ tested' = 0

\* Brain::Button::Button(...). The call made keeps the requested size and
\* radius next to the position.
Button(x, y, w, h, radius) ==
  /\ widgets' = Append(widgets, NewButton(x, y, w, h, radius))
  /\ UNCHANGED <<screen_on_press, screen_on_release>>
  /\ NoDispatch
  /\ lastOp' = Op("Button", "", x, y, <<w, h, radius>>, TRUE)
  /\ UNCHANGED <<hw, calls, hist, nOps>>
  /\ UNCHANGED <<ctrlVars, queueVars, buttonVars>>
  /\ UNCHANGED <<screenVars, stepVars>>

\* Brain::pressed(callback).
pressed(callback) ==
  /\ screen_on_press' = callback
  /\ UNCHANGED <<screen_on_release, widgets>>
  /\ NoDispatch
  /\ BrainOp("pressed", callback, 0, TRUE)

\* Brain::released(callback).
released(callback) ==
  /\ screen_on_release' = callback
  /\ UNCHANGED <<screen_on_press, widgets>>
  /\ NoDispatch
  /\ BrainOp("released", callback, 0, TRUE)

\* Brain::Button::pressed(callback) on the i-th registered widget.
Button_pressed(i, callback) ==
  /\ widgets' = [widgets EXCEPT ![i].on_press = callback]
  /\ UNCHANGED <<screen_on_press, screen_on_release>>
  /\ NoDispatch
  /\ BrainOp("Button_pressed", i, callback, TRUE)

\* Brain::Button::released(callback) on the i-th registered widget.
Button_released(i, callback) ==
  /\ widgets' = [widgets EXCEPT ![i].on_release = callback]
  /\ UNCHANGED <<screen_on_press, screen_on_release>>
  /\ NoDispatch
  /\ BrainOp("Button_released", i, callback, TRUE)

(***************************************************************************)
(* Brain: the screen and draw_image (src/adlib.cpp:252-256, 287-388)       *)
(***************************************************************************)
SCREEN_W == 480
SCREEN_H == 239
CENTER == 65535
BUF_SIZE == 2048
\* The bytes before the first index byte: width, height and 256 palette
\* entries of 4 bytes.
HEADER_LEN == 4 + 1024
\* The bgcolor argument that asks for no erase: 0xffffffff, which is -1 in
\* the int32_t the argument is.
NO_BGCOLOR == -1
\* The eraser colour and the screen content at start-up.
BLACK == 0

\* The pixels of the screen that are observed: its top left corner.
Pixels == (0..2) \X (0..1)

\* One 8-bit channel of a colour, and the colour of three channels.
Channel(c, shift) == (c \div (2 ^ shift)) % 256
RGB(r, g, b) == r * 65536 + g * 256 + b

\* A blend that divides the weighted sum once.
Blend_single_division(src, alpha, bg) == ((src * alpha + bg * (255 - alpha)) \div 255) % 256

\* One channel of a palette entry after the blend of lines 350-352, stored
\* back into a uint8_t.
Blend(src, alpha, bg) == ((src * alpha) \div 255 + (bg * (255 - alpha)) \div 255) % 256

\* palette[i] for the entry e = [r, g, b, a] and the background bgcolor.
palette_color(e, bgcolor) ==
  IF e.a # 255
  THEN RGB(Blend(e.r, e.a, Channel(bgcolor, 16)),
           Blend(e.g, e.a, Channel(bgcolor, 8)),
           Blend(e.b, e.a, Channel(bgcolor, 0)))
  ELSE RGB(e.r, e.g, e.b)

\* x0 and y0 for the anchors x and y (lines 311-331).
anchor(v, screen_size, size) ==
  IF v = CENTER THEN CDiv(screen_size - size, 2)
  ELSE IF v >= 0 THEN v
  ELSE screen_size + v - size

\* The index bytes the fread before the loop delivers after header and
\* palette, and the bytes a later fread delivers when pos index bytes have
\* been read, out of total in the file.
first_read(total) == Min(total, BUF_SIZE - HEADER_LEN)
fread(pos, total) == Min(BUF_SIZE, total - pos)

\* pros::screen calls, as the screen sees them.
DrawPixel(x, y, pen) == [k |-> "draw_pixel", x |-> x, y |-> y, c |-> pen]
EraseRect(x1, y1, x2, y2, c) == [k |-> "erase_rect", x |-> x1, y |-> y1, x2 |-> x2, y2 |-> y2, c |-> c]
ScreenPrint(row, s) == [k |-> "print", x |-> 0, y |-> row, c |-> 16711680, s |-> s]

\* The screen after erase_rect(x1, y1, x2, y2) with the eraser colour c.
erase_rect(scr, x1, y1, x2, y2, c) ==
  [p \in Pixels |->
     IF p[1] >= x1 /\ p[1] <= x2 /\ p[2] >= y1 /\ p[2] <= y2 THEN c ELSE scr[p]]

\* The body of the for loop of lines 369-383 for the k-th index byte of the
\* file: the pixel is drawn unless its entry has alpha 0, then col and row
\* move on.
pixel_step(st, k, img, x0, y0, bgcolor) ==
  LET e == img.palette[img.idx[k + 1]]
      x == st.col + x0
      y == st.row + y0
      pen == palette_color(e, bgcolor)
      wraps == st.col + 1 >= img.w
  IN  [col |-> IF wraps THEN 0 ELSE st.col + 1,
       row |-> IF wraps THEN st.row + 1 ELSE st.row,
       screen |-> IF e.a # 0 /\ <<x, y>> \in Pixels
                  THEN [st.screen EXCEPT ![<<x, y>>] = pen]
                  ELSE st.screen,
       dlog |-> IF e.a # 0 THEN Append(st.dlog, DrawPixel(x, y, pen)) ELSE st.dlog]

\* The for loop over the index bytes lo .. hi - 1 of the file, which one
\* chunk holds: pixel_step on each in turn (the range is halved to keep
\* the evaluation shallow; the bytes are still taken from left to right).
RECURSIVE for_loop(_, _, _, _, _, _, _)
for_loop(lo, hi, st, img, x0, y0, bgcolor) ==
  IF lo >= hi THEN st
  ELSE IF hi = lo + 1 THEN pixel_step(st, lo, img, x0, y0, bgcolor)
  ELSE LET half == for_loop(lo, (lo + hi) \div 2, st, img, x0, y0, bgcolor)
       IN  IF half.col >= 0
           THEN for_loop((lo + hi) \div 2, hi, half, img, x0, y0, bgcolor)
           ELSE half

\* The while loop of lines 358-385 when pos index bytes have been read from
\* the file. With col = 0 and row = 0 the buffer of the first fread is
\* processed from HEADER_LEN on and nothing is read; if that buffer holds
\* no index byte, col and row stay 0 and the loop never ends.
RECURSIVE while_loop(_, _, _, _, _, _)
while_loop(pos, st, img, x0, y0, bgcolor) ==
  IF st.row >= img.h THEN [st |-> st, returns |-> TRUE]
  ELSE IF st.col = 0 /\ st.row = 0
  THEN IF first_read(Len(img.idx)) = 0
       THEN [st |-> st, returns |-> FALSE]
       ELSE while_loop(pos, for_loop(0, first_read(Len(img.idx)), st, img, x0, y0, bgcolor),
                       img, x0, y0, bgcolor)
  ELSE IF fread(pos, Len(img.idx)) = 0
  THEN [st |-> st, returns |-> TRUE]
  ELSE while_loop(pos + fread(pos, Len(img.idx)),
                  for_loop(pos, pos + fread(pos, Len(img.idx)), st, img, x0, y0, bgcolor),
                  img, x0, y0, bgcolor)

\* Brain::draw_image(filename, x, y, bgcolor) with the SD card installed or
\* not and the file f (missing, shorter than header and palette, or an
\* image): the screen and the pros::screen calls it leaves, and whether the
\* image was drawn. The eraser is set back to what it was.
draw_image_effect(installed, f, x, y, bgcolor) ==
  IF ~installed
  THEN [screen |-> screen, dlog |-> <<ScreenPrint(11, "SD Card not found!")>>,
        ok |-> FALSE, returns |-> TRUE]
  ELSE IF f.kind = "missing"
  THEN [screen |-> screen, dlog |-> <<ScreenPrint(11, "File not found!")>>,
        ok |-> FALSE, returns |-> TRUE]
  ELSE IF f.kind = "short"
  THEN [screen |-> screen, dlog |-> <<ScreenPrint(11, "Invalid image file!")>>,
        ok |-> FALSE, returns |-> TRUE]
  ELSE LET x0 == anchor(x, SCREEN_W, f.w)
           y0 == anchor(y, SCREEN_H, f.h)
           erased == bgcolor # NO_BGCOLOR
           bg == IF erased THEN bgcolor ELSE eraser
           scr0 == IF erased
                   THEN erase_rect(screen, x0, y0, x0 + f.w - 1, y0 + f.h - 1, bgcolor)
                   ELSE screen
           log0 == IF erased
                   THEN <<EraseRect(x0, y0, x0 + f.w - 1, y0 + f.h - 1, bgcolor)>>
                   ELSE <<>>
           out == while_loop(first_read(Len(f.idx)),
                             [col |-> 0, row |-> 0, screen |-> scr0, dlog |-> log0],
                             f, x0, y0, bg)
       IN  [screen |-> out.st.screen, dlog |-> out.st.dlog, ok |-> TRUE,
            returns |-> out.returns]

ScreenOp(op, a, b, s, ok) ==
  /\ lastOp' = Op(op, "", a, b, s, ok)
  /\ UNCHANGED <<hw, calls, hist>>
  /\ UNCHANGED <<ctrlVars, queueVars, buttonVars, brainVars, stepVars>>

\* Brain::draw_image(...) on the file numbered fno. A call whose loop never
\* ends is recorded as such: its task makes no further call.
draw_image(installed, fno, f, x, y, bgcolor) ==
  LET out == draw_image_effect(installed, f, x, y, bgcolor)
  IN  /\ lastOp.op # "draw_image (no return)"
      /\ screen' = out.screen
      /\ dlog' = out.dlog
      /\ eraser' = eraser
      /\ nOps' = nOps + 1
      /\ ScreenOp(IF out.returns THEN "draw_image" ELSE "draw_image (no return)",
                  x, y, <<fno, bgcolor>>, out.ok)

\* Brain::clear_screen(color).
clear_screen(color) ==
  /\ lastOp.op # "draw_image (no return)"
  /\ eraser' = color
  /\ screen' = erase_rect(screen, 0, 0, SCREEN_W, SCREEN_H, color)
  /\ dlog' = <<EraseRect(0, 0, SCREEN_W, SCREEN_H, color)>>
  /\ nOps' = nOps
  /\ ScreenOp("clear_screen", color, 0, <<>>, TRUE)

(***************************************************************************)
(* Calls in progress                                                       *)
(***************************************************************************)
ProducerIds == {"p1", "p2"}
StarterIds == {"s1", "s2"}
\* A task that is not inside a call.
IdleCall == [pc |-> "idle"]

\* The tag clear(-1), rumble and print store.
tag_of(op) ==
  IF op = "clear" THEN MSG_CLEAR ELSE IF op = "rumble" THEN MSG_RUMBLE ELSE MSG_TEXT

\* An enqueue call that moves the write index before it stores the command.
enq_next_publish_first(pc, op) ==
  IF pc = "idle" THEN "update"
  ELSE IF pc = "update" THEN "tag"
  ELSE IF pc = "tag" /\ op # "clear" THEN "payload"
  ELSE "idle"

\* The step of clear(-1), print and rumble that follows the step pc: after
\* the full check the tag is stored, then (print, rumble) the rest of the
\* command, then the write index is moved and the call returns.
enq_next(pc, op) ==
  IF pc = "idle" THEN "tag"
  ELSE IF pc = "tag" THEN (IF op = "clear" THEN "update" ELSE "payload")
  ELSE IF pc = "payload" THEN "update"
  ELSE "idle"

InCall(t, pc) == IF pc = "idle" THEN IdleCall ELSE [producers[t] EXCEPT !.pc = pc]

EnqStep ==
  /\ UNCHANGED <<hw, hist, nOps, lastOp, consumer, starters>>
  /\ UNCHANGED <<ctrlVars, buttonVars, brainVars, screenVars, stamps>>

\* Task t calls clear(-1), print(row, col, ...) or rumble(...): the call
\* tests is_buf_full() and returns at once when the buffer is full.
enq_check(t, op, row, col, s) ==
  /\ producers[t].pc = "idle"
  /\ calls' = Append(calls, Call(op, row, col, s, ~is_buf_full))
  /\ IF is_buf_full
     THEN UNCHANGED <<producers, overlapped>>
     ELSE /\ producers' = [producers EXCEPT ![t] =
                            [pc |-> enq_next("idle", op), op |-> op, row |-> row,
                             col |-> col, s |-> s]]
          /\ overlapped' = (overlapped \/ \E u \in ProducerIds : producers[u].pc # "idle")
  /\ UNCHANGED queueVars
  /\ EnqStep

\* buf[wr_ptr][0] = tag, with wr_ptr as it is now.
enq_tag(t) ==
  /\ producers[t].pc = "tag"
  /\ buf' = [buf EXCEPT ![wr_ptr][0] = tag_of(producers[t].op)]
  /\ producers' = [producers EXCEPT ![t] = InCall(t, enq_next("tag", producers[t].op))]
  /\ UNCHANGED <<rd_ptr, wr_ptr, calls, overlapped>>
  /\ EnqStep

\* The row, the column and the text of a print, or the pattern of a rumble,
\* stored in buf[wr_ptr] with wr_ptr as it is now.
enq_payload(t) ==
  /\ producers[t].pc = "payload"
  /\ LET c == producers[t]
         s0 == IF c.op = "print"
               THEN [buf[wr_ptr] EXCEPT ![1] = ToChar(c.row), ![2] = ToChar(c.col)]
               ELSE buf[wr_ptr]
     IN  buf' = [buf EXCEPT ![wr_ptr] =
                   IF c.op = "print" THEN snprintf(s0, 3, MAX_MSG_LEN - 4, c.s)
                   ELSE snprintf(s0, 1, MAX_MSG_LEN - 1, c.s)]
  /\ producers' = [producers EXCEPT ![t] = InCall(t, enq_next("payload", producers[t].op))]
  /\ UNCHANGED <<rd_ptr, wr_ptr, calls, overlapped>>
  /\ EnqStep

\* update_wr_ptr().
enq_update(t) ==
  /\ producers[t].pc = "update"
  /\ wr_ptr' = update_wr_ptr
  /\ producers' = [producers EXCEPT ![t] = InCall(t, enq_next("update", producers[t].op))]
  /\ UNCHANGED <<buf, rd_ptr, calls, overlapped>>
  /\ EnqStep

PpStep ==
  /\ UNCHANGED <<buf, wr_ptr, calls, hist, nOps, lastOp, producers, starters, overlapped>>
  /\ UNCHANGED <<ctrlVars, buttonVars, brainVars, screenVars, stamps>>

\* print_process() tests is_buf_empty() and returns at once when the buffer
\* is empty.
pp_check ==
  /\ consumer.pc = "idle"
  /\ consumer' = IF is_buf_empty THEN IdleCall ELSE [pc |-> "read"]
  /\ UNCHANGED <<hw, rd_ptr>>
  /\ PpStep

\* print_process() reads buf[rd_ptr] and makes the pros::Controller call.
pp_read ==
  /\ consumer.pc = "read"
  /\ hw' \in forward(buf[rd_ptr])
  /\ consumer' = [pc |-> "update"]
  /\ UNCHANGED rd_ptr
  /\ PpStep

\* update_rd_ptr().
pp_update ==
  /\ consumer.pc = "update"
  /\ rd_ptr' = update_rd_ptr
  /\ consumer' = IdleCall
  /\ UNCHANGED hw
  /\ PpStep

StartStep ==
  /\ UNCHANGED <<hw, calls, hist, nOps, lastOp, producers, consumer, overlapped>>
  /\ UNCHANGED <<queueVars, buttonVars, brainVars, screenVars, stamps>>

\* Task t calls start_task(): line 23, the test controller_task == nullptr;
\* the call returns at once when a task is set.
st_check(t) ==
  /\ starters[t] = "idle"
  /\ starters' = [starters EXCEPT ![t] = IF controller_task = 0 THEN "create" ELSE "done"]
  /\ UNCHANGED ctrlVars
  /\ StartStep

\* Line 24: controller_task = new pros::Task(...), and the call returns.
st_create(t) ==
  /\ starters[t] = "create"
  /\ tasks' = Append(tasks, NewTask)
  /\ controller_task' = Len(tasks) + 1
  /\ starters' = [starters EXCEPT ![t] = "done"]
  /\ StartStep

(***************************************************************************)
(* The state after construction                                            *)
(***************************************************************************)
Init ==
  /\ controller_task = 0
  /\ tasks = <<>>
  /\ buttons = [i \in 0..(num_of_buttons - 1) |->
                  [id |-> ButtonIds[i + 1], last_state |-> FALSE,
                   on_press |-> 0, on_release |-> 0]]
  /\ buf = [i \in 0..(MAX_NUM_OF_MSG - 1) |-> [j \in 0..(MAX_MSG_LEN - 1) |-> Indet]]
  /\ rd_ptr = 0
  /\ wr_ptr = 0
  /\ screen_on_press = 0
  /\ screen_on_release = 0
  /\ widgets = <<>>
  /\ hw = <<>>
  /\ calls = <<>>
  /\ cblog = <<>>
  /\ prevSample = [id \in Range(ButtonIds) |-> FALSE]
  /\ curSample = [id \in Range(ButtonIds) |-> FALSE]
  /\ hist = <<>>
  /\ lastReg = [id \in Range(ButtonIds) |-> [press |-> 0, release |-> 0]]
  /\ tlog = <<>>
  /\ tested = 0
  /\ lastOp = Op("init", "", 0, 0, <<>>, TRUE)
  /\ nOps = 0
  /\ screen = [p \in Pixels |-> BLACK]
  /\ eraser = BLACK
  /\ dlog = <<>>
  /\ producers = [t \in ProducerIds |-> IdleCall]
  /\ consumer = IdleCall
  /\ starters = [t \in StarterIds |-> "idle"]
  /\ overlapped = FALSE
  /\ stamps = <<>>

(***************************************************************************)
(* Spec: the output queue, enqueue calls and print_process one at a time   *)
(***************************************************************************)
\* A short text and a short rumble pattern.
TextA == <<97, 98>>
PatternA == <<46, 45>>

EnqueueCall ==
  \/ clear(-1)
  \/ print(1, 2, TextA)
  \/ rumble(PatternA)

Next ==
  \/ Len(calls) < MaxCalls /\ EnqueueCall
  \/ print_process

Spec == Init /\ [][Next]_vars

(***************************************************************************)
(* Properties of the output queue                                          *)
(***************************************************************************)
\* The enqueue calls that stored a command, in call order.
AcceptedCalls == SelectSeq(calls, LAMBDA c : c.accepted)

\* The kind of command an enqueue call asks for: clear() asks for a screen
\* erase, clear(row) and print for a text, rumble for a rumble.
KindOf(c) ==
  IF c.op = "rumble" THEN "rumble"
  ELSE IF c.op = "clear" /\ c.row = -1 THEN "clear"
  ELSE "print"

\* Commands stored and not yet forwarded, counted from the two logs.
Waiting == Len(AcceptedCalls) - Len(hw)

ForwardedIsPrefix ==
  /\ Len(hw) <= Len(AcceptedCalls)
  /\ \A i \in 1..Len(hw) : hw[i].k = KindOf(AcceptedCalls[i])

\* C1: at every point the commands forwarded to the controller are, in order
\* and kind, a prefix of the enqueue calls made while the buffer was not
\* full (so each is forwarded at most once and a dropped one never); one
\* print_process forwards at most one command, and none when nothing waits.
C1_FifoPrefix ==
  [][/\ ForwardedIsPrefix'
     /\ lastOp'.op = "print_process" =>
          /\ Len(hw') <= Len(hw) + 1
          /\ hw = SubSeq(hw', 1, Len(hw))
          /\ Waiting = 0 => hw' = hw
          /\ Waiting > 0 => Len(hw') = Len(hw) + 1]_vars

\* C1 witness: seven commands of all three kinds were forwarded, a call was
\* dropped, and the last print_process found the buffer empty.
C1_Witness ==
  /\ Len(hw) = 7
  /\ {hw[i].k : i \in 1..Len(hw)} = {"clear", "rumble", "print"}
  /\ \E i \in 1..Len(calls) : ~calls[i].accepted
  /\ lastOp.op = "print_process" /\ ~lastOp.ok

\* C2: an enqueue call stores its command exactly when fewer than 7 commands
\* wait; with 7 waiting it leaves both indices and every slot unchanged.
\* From an empty buffer with nothing forwarded in between, calls 1..7 are
\* stored and call 8 is dropped, and what is forwarded later are those 7.
C2_DropWhenFull ==
  [][/\ Len(calls') = Len(calls) + 1 =>
          LET c == calls'[Len(calls')]
          IN  /\ c.accepted <=> Waiting < 7
              /\ c.accepted => wr_ptr' = (wr_ptr + 1) % 8 /\ rd_ptr' = rd_ptr
              /\ ~c.accepted => rd_ptr' = rd_ptr /\ wr_ptr' = wr_ptr /\ buf' = buf
              /\ hw' = hw
              /\ Len(calls) = 7 /\ Len(hw) = 0 =>
                   /\ \A i \in 1..7 : calls[i].accepted
                   /\ ~c.accepted
     /\ (Len(calls) >= 8 /\ (\A i \in 1..7 : calls[i].accepted) /\ ~calls[8].accepted) =>
          \A i \in 1..Len(hw) : i <= 7 => hw[i].k = KindOf(calls[i])]_vars

\* C2 witness: the eighth call in a row was dropped and the seven before it
\* have all been forwarded.
C2_Witness ==
  /\ Len(calls) >= 8
  /\ \A i \in 1..7 : calls[i].accepted
  /\ ~calls[8].accepted
  /\ Len(hw) = 7

(***************************************************************************)
(* SpecButtons: registrations and button_process calls one at a time       *)
(***************************************************************************)
\* The ids registrations are made for: the first two buttons and an id that
\* is none of the twelve.
RegIds == {ButtonIds[1], ButtonIds[2], "NOT_A_BUTTON"}

\* The callbacks an application registers; 0 is an empty std::function.
Callbacks == 0..MaxCb

NextButtons ==
  \/ \E sample \in Samples : button_process(sample)
  \/ nOps < MaxRegs /\ \E id \in RegIds, cb \in Callbacks : button_pressed(id, cb)
  \/ nOps < MaxRegs /\ \E id \in RegIds, cb \in Callbacks : button_released(id, cb)

SpecButtons == Init /\ [][NextButtons]_vars

(***************************************************************************)
(* SpecEdges: the watched button polled sample by sample                   *)
(***************************************************************************)
\* The levels of a poll in which only the watched button can read true.
WatchedSample(level) == [id \in Range(ButtonIds) |-> id = Watched /\ level]

NextEdges ==
  \/ Len(hist) < MaxPolls /\ \E level \in BOOLEAN :
       button_process_recorded(WatchedSample(level))
  \/ nOps < MaxRegs /\ \E cb \in 1..MaxCb : button_pressed(Watched, cb)
  \/ nOps < MaxRegs /\ \E cb \in 1..MaxCb : button_released(Watched, cb)

SpecEdges == Init /\ [][NextEdges]_vars

\* The entry of buttons for id.
ButtonOf(id) == buttons[CHOOSE i \in DOMAIN buttons : buttons[i].id = id]

\* C3: in every button_process call and for each of the twelve buttons, the
\* press callback (if registered) is invoked exactly once when the sample is
\* true and the previous sample was false, the release callback (if
\* registered) exactly once when the sample is false and the previous one
\* was true, and no callback of the button is invoked otherwise.
C3_EdgeCallbacks ==
  lastOp.op = "button_process" =>
    \A id \in Range(ButtonIds) :
      LET b == ButtonOf(id)
          rising == curSample[id] /\ ~prevSample[id]
          falling == ~curSample[id] /\ prevSample[id]
      IN  /\ NFired(cblog, id, "press") = IF rising /\ b.on_press # 0 THEN 1 ELSE 0
          /\ NFired(cblog, id, "release") = IF falling /\ b.on_release # 0 THEN 1 ELSE 0
          /\ \A k \in 1..Len(cblog) :
               cblog[k].button = id =>
                 cblog[k].cb = IF cblog[k].kind = "press" THEN b.on_press ELSE b.on_release

\* C3 witness: one poll in which one button rose and fired its press
\* callback while another fell and fired its release callback.
C3_Witness ==
  /\ lastOp.op = "button_process"
  /\ \E a, b \in Range(ButtonIds) :
       /\ a # b
       /\ curSample[a] /\ ~prevSample[a] /\ NFired(cblog, a, "press") = 1
       /\ ~curSample[b] /\ prevSample[b] /\ NFired(cblog, b, "release") = 1

\* The first five polls of the watched button, when both of its callbacks
\* were registered at each of them.
FirstFive == SubSeq(hist, 1, 5)
BothRegistered(h) == \A k \in 1..Len(h) : h[k].hadPress /\ h[k].hadRelease
Levels(h) == [k \in 1..Len(h) |-> h[k].level]
Presses(h) == [k \in 1..Len(h) |-> h[k].nPress]
Releases(h) == [k \in 1..Len(h) |-> h[k].nRelease]
Constant(s) == \A j, k \in 1..Len(s) : s[j] = s[k]

\* C4 as stated: on the levels false, false, true, true, false the one press
\* callback fires on the second sample and the one release callback on the
\* fifth; a constant level fires nothing.
C4_AsStated ==
  (Len(hist) >= 5 /\ BothRegistered(FirstFive)) =>
    /\ Levels(FirstFive) = <<FALSE, FALSE, TRUE, TRUE, FALSE>> =>
         /\ Presses(FirstFive) = <<0, 1, 0, 0, 0>>
         /\ Releases(FirstFive) = <<0, 0, 0, 0, 1>>
    /\ Constant(Levels(FirstFive)) =>
         /\ Presses(FirstFive) = <<0, 0, 0, 0, 0>>
         /\ Releases(FirstFive) = <<0, 0, 0, 0, 0>>

\* C4 (amended): on the levels false, false, true, true, false, with both
\* callbacks registered, exactly one press callback fires, on the third
\* sample (the first that reads true), and exactly one release callback, on
\* the fifth; a constant level fires no release callback, and no press
\* callback either except on the first sample when the level is true (the
\* last level starts as false).
C4_EdgeSequence ==
  (Len(hist) >= 5 /\ BothRegistered(FirstFive)) =>
    /\ Levels(FirstFive) = <<FALSE, FALSE, TRUE, TRUE, FALSE>> =>
         /\ Presses(FirstFive) = <<0, 0, 1, 0, 0>>
         /\ Releases(FirstFive) = <<0, 0, 0, 0, 1>>
    /\ Constant(Levels(FirstFive)) =>
         /\ Presses(FirstFive) = <<IF hist[1].level THEN 1 ELSE 0, 0, 0, 0, 0>>
         /\ Releases(FirstFive) = <<0, 0, 0, 0, 0>>

\* C4 witness: the five polls read false, false, true, true, false with
\* both callbacks registered throughout, and each callback was invoked.
C4_Witness ==
  /\ Len(hist) >= 5
  /\ BothRegistered(FirstFive)
  /\ Levels(FirstFive) = <<FALSE, FALSE, TRUE, TRUE, FALSE>>
  /\ \E k \in 1..5 : hist[k].nPress = 1
  /\ \E k \in 1..5 : hist[k].nRelease = 1

\* C5: a registration invokes no callback; for one of the twelve ids it
\* replaces that button's press (release) callback and nothing else, for any
\* other id it changes nothing; a callback fired later is the one most
\* recently registered.
C5_Registration ==
  [][/\ (nOps' = nOps + 1 /\ lastOp'.op \in {"button_pressed", "button_released"}) =>
          LET id == lastOp'.id
              cb == lastOp'.a
          IN  /\ cblog' = <<>>
              /\ UNCHANGED <<prevSample, curSample, queueVars, hw, ctrlVars, brainVars>>
              /\ IF id \in Range(ButtonIds)
                 THEN LET i == CHOOSE j \in DOMAIN buttons : buttons[j].id = id
                      IN  buttons' = IF lastOp'.op = "button_pressed"
                                     THEN [buttons EXCEPT ![i].on_press = cb]
                                     ELSE [buttons EXCEPT ![i].on_release = cb]
                 ELSE buttons' = buttons
     /\ \A k \in 1..Len(cblog') :
          /\ cblog'[k].cb # 0
          /\ cblog'[k].cb = lastReg'[cblog'[k].button][cblog'[k].kind]]_vars

\* C5 witness: a press callback was replaced by another one and the button
\* then rose, firing the second.
C5_Witness ==
  /\ nOps >= 2
  /\ lastOp.op = "button_process"
  /\ \E k \in 1..Len(cblog) : cblog[k].kind = "press" /\ cblog[k].cb = 2

(***************************************************************************)
(* SpecPoller: start_task calls, the poller task and enqueue calls         *)
(***************************************************************************)
NextPoller ==
  \/ nOps < MaxStarts /\ start_task
  \/ \E t \in 1..Len(tasks) :
       tasks[t].cycle < MaxCycles /\ \E level \in BOOLEAN :
         task_poll(t, WatchedSample(level))
  \/ \E t \in 1..Len(tasks) : task_drain(t)
  \/ \E t \in 1..Len(tasks) : task_delay(t)
  \/ Len(calls) < MaxPollerCalls /\ EnqueueCall

SpecPoller == Init /\ [][NextPoller]_vars

\* n / 2 rounded up.
HalfUp(n) == (n + 1) \div 2

\* C6: each cycle of the poller calls button_process exactly once, before
\* any drain of that cycle; print_process is called exactly in the cycles
\* 0, 2, 4, ... and forwards at most one command, so after n completed
\* cycles at most ceil(n/2) commands have been forwarded.
C6_PollerCadence ==
  \A t \in 1..Len(tasks) :
    LET k == tasks[t]
        even == k.cycle % 2 = 0
    IN  /\ k.pc = "poll" => k.polls = 0 /\ k.drains = 0 /\ Len(hw) <= HalfUp(k.cycle)
        /\ k.pc = "drain" => k.polls = 1 /\ k.drains = 0 /\ Len(hw) <= HalfUp(k.cycle)
        /\ k.pc = "delay" =>
             /\ k.polls = 1
             /\ k.drains = IF even THEN 1 ELSE 0
             /\ Len(hw) <= HalfUp(k.cycle + 1)

\* C6 witness: the poller is ending its third cycle (cycle 2), in which it
\* drained, and two commands have been forwarded.
C6_Witness ==
  /\ Len(tasks) = 1
  /\ tasks[1].pc = "delay" /\ tasks[1].cycle = 2 /\ tasks[1].drains = 1
  /\ Len(hw) = 2

\* C7: of any number of start_task calls made one after another, the first
\* creates the one poller task; every later call creates nothing and leaves
\* the task, its divider and cycle count, and the queue as they were.
C7_StartOnce ==
  [][(nOps' = nOps + 1 /\ lastOp'.op = "start_task") =>
       /\ Len(tasks') = 1
       /\ controller_task' = 1
       /\ nOps = 0 => tasks = <<>> /\ tasks' = <<NewTask>>
       /\ nOps > 0 => UNCHANGED <<tasks, controller_task, queueVars, hw>>]_vars

\* C7 witness: a second start_task call was made while the poller, started
\* by the first, was in a later cycle.
C7_Witness ==
  /\ lastOp.op = "start_task"
  /\ nOps = 2
  /\ Len(tasks) = 1
  /\ tasks[1].cycle >= 2

(***************************************************************************)
(* SpecTouch: widgets, callback registrations and touch events             *)
(***************************************************************************)
\* The rectangles widgets are constructed with, on a 2 x 2 touch area: the
\* whole area, its left column and its bottom row.
Geoms ==
  {[x |-> 0, y |-> 0, w |-> 2, h |-> 2], [x |-> 0, y |-> 0, w |-> 1, h |-> 2],
   [x |-> 0, y |-> 1, w |-> 2, h |-> 1]}
TouchXs == 0..1
TouchYs == 0..1
DEFAULT_RADIUS == 3

\* What the whole-screen callback can return: nothing is returned when none
\* is registered.
Returns(cb) == IF cb = 0 THEN {TRUE} ELSE BOOLEAN

NextTouch ==
  \/ Len(widgets) < MaxWidgets /\ \E g \in Geoms : Button(g.x, g.y, g.w, g.h, DEFAULT_RADIUS)
  \/ \E cb \in 0..1 : pressed(cb)
  \/ \E cb \in 0..1 : released(cb)
  \/ \E i \in 1..Len(widgets), cb \in 0..1 : Button_pressed(i, cb)
  \/ \E i \in 1..Len(widgets), cb \in 0..1 : Button_released(i, cb)
  \/ \E px \in TouchXs, py \in TouchYs, ret \in Returns(screen_on_press) :
       touch_pressed_func(px, py, ret)
  \/ \E px \in TouchXs, py \in TouchYs, ret \in Returns(screen_on_release) :
       touch_released_func(px, py, ret)

SpecTouch == Init /\ [][NextTouch]_vars

\* The last operation was a touch event; its kind, point and pre-filter.
IsTouch == lastOp.op \in {"touch_pressed_func", "touch_released_func"}
TouchKind == IF lastOp.op = "touch_pressed_func" THEN "press" ELSE "release"
PreFilter == IF TouchKind = "press" THEN screen_on_press ELSE screen_on_release
PreFilterPassed == PreFilter = 0 \/ lastOp.ok

\* The widgets whose rectangle contains the touch point of the last event.
Hits ==
  {i \in 1..Len(widgets) :
     /\ lastOp.a \in widgets[i].x1..widgets[i].x2
     /\ lastOp.b \in widgets[i].y1..widgets[i].y2}
FirstHit == CHOOSE i \in Hits : \A j \in Hits : i <= j
CallbackOf(i) == IF TouchKind = "press" THEN widgets[i].on_press ELSE widgets[i].on_release

\* The widget callbacks the last event invoked.
WidgetCalls == SelectSeq(tlog, LAMBDA c : c.who # 0)

\* What a dispatch without pre-filter invokes for the last event's point.
PlainDispatch ==
  IF Hits # {} /\ CallbackOf(FirstHit) # 0
  THEN <<TCall(FirstHit, TouchKind, CallbackOf(FirstHit))>>
  ELSE <<>>

\* C8: a touch event that passes the pre-filter invokes at most one widget
\* callback: that of the earliest registered widget containing the point,
\* for the event's kind; a widget registered later that also contains the
\* point is not invoked.
C8_FirstWidgetOnly ==
  IsTouch =>
    /\ Len(WidgetCalls) <= 1
    /\ \A k \in 1..Len(WidgetCalls) :
         /\ WidgetCalls[k].who \in Hits
         /\ \A j \in Hits : WidgetCalls[k].who <= j
         /\ WidgetCalls[k].kind = TouchKind
         /\ WidgetCalls[k].cb = CallbackOf(WidgetCalls[k].who)
    /\ (PreFilterPassed /\ Hits # {} /\ CallbackOf(FirstHit) # 0) => Len(WidgetCalls) = 1

\* C8 witness: two widgets with press callbacks both contain the point of a
\* touch-pressed event, and the callback of the first was invoked.
C8_Witness ==
  /\ lastOp.op = "touch_pressed_func"
  /\ Cardinality(Hits) >= 2
  /\ \A i \in Hits : widgets[i].on_press # 0
  /\ Len(WidgetCalls) = 1

\* C9: a registered pre-filter is invoked exactly once per event, before any
\* widget callback; if it returns false no widget is hit-tested and no
\* widget callback is invoked; if it returns true, or none is registered,
\* the widgets are dispatched as they are without a pre-filter.
C9_PreFilter ==
  IsTouch =>
    /\ Cardinality({k \in 1..Len(tlog) : tlog[k].who = 0}) = IF PreFilter = 0 THEN 0 ELSE 1
    /\ PreFilter # 0 => tlog[1] = TCall(0, TouchKind, PreFilter)
    /\ ~PreFilterPassed => tested = 0 /\ WidgetCalls = <<>>
    /\ PreFilterPassed =>
         /\ WidgetCalls = PlainDispatch
         /\ tested = IF Hits = {} THEN Len(widgets) ELSE FirstHit

\* C9 witness: the press pre-filter returned false for a touch on a widget
\* that has a press callback.
C9_Witness ==
  /\ lastOp.op = "touch_pressed_func"
  /\ screen_on_press # 0 /\ ~lastOp.ok
  /\ Hits # {} /\ widgets[FirstHit].on_press # 0
  /\ Len(tlog) = 1

\* C19: a widget's rectangle runs from (x, y) to (x + w - 1, y + h - 1),
\* bounds included; the dispatch of a touch event stops at the first
\* registered widget whose rectangle contains the point, also when that
\* widget has no callback for the kind of event: then no widget callback is
\* invoked, not even that of a widget registered later that contains the
\* point and has one.
C19_StopsAtFirstHit ==
  /\ lastOp.op = "Button" =>
       /\ widgets[Len(widgets)].x1 = lastOp.a
       /\ widgets[Len(widgets)].y1 = lastOp.b
       /\ widgets[Len(widgets)].x2 = lastOp.a + lastOp.s[1] - 1
       /\ widgets[Len(widgets)].y2 = lastOp.b + lastOp.s[2] - 1
  /\ (IsTouch /\ PreFilterPassed /\ Hits # {}) =>
       /\ tested = FirstHit
       /\ CallbackOf(FirstHit) = 0 => WidgetCalls = <<>>

\* A press on a point inside two widgets, the first without a press
\* callback and the second with one, invoked no widget callback.
C19_Witness ==
  /\ lastOp.op = "touch_pressed_func" /\ PreFilterPassed
  /\ Cardinality(Hits) >= 2
  /\ widgets[FirstHit].on_press = 0
  /\ \E j \in Hits : j > FirstHit /\ widgets[j].on_press # 0
  /\ WidgetCalls = <<>>
  /\ tested = FirstHit

(***************************************************************************)
(* SpecPayload: a few enqueue calls with varied rows, columns and texts    *)
(***************************************************************************)
\* Rows and columns callers pass: on the screen, above one byte, negative.
Rows == {1, 258, -2}
Cols == {0, 3}
Blank28 == Rep(28, SPACE)
Texts == {TextA, Blank28}

PayloadCall ==
  \/ \E row \in Rows \cup {-1} : clear(row)
  \/ \E row \in Rows, col \in Cols, s \in Texts : print(row, col, s)
  \/ rumble(PatternA)

NextPayload ==
  \/ Len(calls) < MaxPayloadCalls /\ PayloadCall
  \/ print_process

SpecPayload == Init /\ [][NextPayload]_vars

\* The step is an accepted clear(row) call.
ClearStored(row) ==
  /\ Len(calls') = Len(calls) + 1
  /\ lastOp'.op = "clear" /\ lastOp'.a = row /\ lastOp'.ok

\* Exactly one command was stored, in the slot at the write index.
OneSlotWritten ==
  /\ wr_ptr' = (wr_ptr + 1) % 8
  /\ rd_ptr' = rd_ptr
  /\ \A i \in DOMAIN buf : i # wr_ptr => buf'[i] = buf[i]

\* The stored command is a text of 28 spaces at column 0.
BlankText(slot) ==
  /\ slot[0] = 3
  /\ slot[2] = 0
  /\ CStr(slot, 3) = [k \in 1..28 |-> 32]

\* C10 as stated: clear(row), row other than -1, on a buffer that is not full
\* enqueues one Text command with that row, column 0 and 28 spaces, as
\* print(row, 0, <28 spaces>) would, never a Clear-tagged one; clear(-1)
\* enqueues one Clear-tagged command, forwarded as a screen erase.
C10_AsStated ==
  [][/\ \A row \in Rows :
          ClearStored(row) =>
            /\ OneSlotWritten
            /\ BlankText(buf'[wr_ptr])
            /\ \A r \in IntOfChar(buf'[wr_ptr][1]) : r = row
            /\ buf' = print_effect(row, 0, Blank28).buf
            /\ wr_ptr' = print_effect(row, 0, Blank28).wr_ptr
     /\ ClearStored(-1) => OneSlotWritten /\ buf'[wr_ptr][0] = 1
     /\ \A i \in 1..Len(hw') :
          AcceptedCalls'[i].op = "clear" =>
            IF AcceptedCalls'[i].row = -1
            THEN hw'[i] = Hw("clear", 0, 0, <<>>)
            ELSE hw'[i] = Hw("print", AcceptedCalls'[i].row, 0, Blank28)]_vars

\* C10 (amended): clear(row), row other than -1, on a buffer that is not
\* full enqueues one Text command with column 0, 28 spaces and the row
\* narrowed to one byte (row mod 256, which is row itself for 0..127), as
\* print(row, 0, <28 spaces>) would, never a Clear-tagged one; clear(-1)
\* enqueues one Clear-tagged command, forwarded as a screen erase.
C10_ClearRow ==
  [][/\ \A row \in Rows :
          ClearStored(row) =>
            /\ OneSlotWritten
            /\ BlankText(buf'[wr_ptr])
            /\ buf'[wr_ptr][1] = row % 256
            /\ (row \in 0..127 => \A r \in IntOfChar(buf'[wr_ptr][1]) : r = row)
            /\ buf' = print_effect(row, 0, Blank28).buf
            /\ wr_ptr' = print_effect(row, 0, Blank28).wr_ptr
     /\ ClearStored(-1) => OneSlotWritten /\ buf'[wr_ptr][0] = 1
     /\ \A i \in 1..Len(hw') :
          AcceptedCalls'[i].op = "clear" =>
            IF AcceptedCalls'[i].row = -1
            THEN hw'[i] = Hw("clear", 0, 0, <<>>)
            ELSE /\ hw'[i].k = "print" /\ hw'[i].col = 0 /\ hw'[i].s = Blank28
                 /\ hw'[i].row \in IntOfChar(AcceptedCalls'[i].row % 256)
                 /\ AcceptedCalls'[i].row \in 0..127 => hw'[i].row = AcceptedCalls'[i].row]_vars

\* C10 witness: a clear of row 1 and a clear of the whole screen were both
\* stored and forwarded, the first as a text of 28 spaces.
C10_Witness ==
  /\ Len(hw) = 2
  /\ hw[1] = Hw("print", 1, 0, Blank28)
  /\ hw[2] = Hw("clear", 0, 0, <<>>)
  /\ calls[1].op = "clear" /\ calls[1].row = 1
  /\ calls[2].op = "clear" /\ calls[2].row = -1

(***************************************************************************)
(* SpecRadius: widgets constructed with any size and requested radius      *)
(***************************************************************************)
MaxBuilt == 1          \* widgets constructed in the radius specification
Widths == {-4, 0, 1, 7, 20}
Heights == {-3, 0, 5, 10}
Radii == {-1, 0, 2, 3, 5, 9, 10}

NextRadius ==
  Len(widgets) < MaxBuilt /\ \E w \in Widths, h \in Heights, r \in Radii : Button(0, 0, w, h, r)

SpecRadius == Init /\ [][NextRadius]_vars

\* The widget the last constructor call made, and what the call asked for.
Built == widgets[Len(widgets)]
AskedW == lastOp.s[1]
AskedH == lastOp.s[2]
AskedR == lastOp.s[3]
HalfSmaller == Min(CDiv(AskedW, 2), CDiv(AskedH, 2))

\* C11 as stated: for any width, height and requested radius the effective
\* radius is at least 0 and at most min(w/2, h/2), and is the requested
\* radius whenever that lies in 0..min(w/2, h/2); 20 x 10 with radius 9
\* gives 5.
C11_AsStated ==
  lastOp.op = "Button" =>
    /\ Built.radius >= 0
    /\ Built.radius <= HalfSmaller
    /\ (AskedR >= 0 /\ AskedR <= HalfSmaller => Built.radius = AskedR)
    /\ (lastOp.s = <<20, 10, 9>> => Built.radius = 5)

\* C11 (amended): for a width and a height that are not negative the
\* effective radius is at least 0 and at most min(w/2, h/2), and is the
\* requested radius whenever that lies in that range (20 x 10 with radius 9
\* gives 5); for every size, negative ones included, the radius is 0 for a
\* negative request and the smallest of r, w/2 and h/2 otherwise, which is
\* negative when a side is -2 or less.
C11_RadiusClamp ==
  lastOp.op = "Button" =>
    /\ (AskedW >= 0 /\ AskedH >= 0 =>
          /\ Built.radius >= 0
          /\ Built.radius <= HalfSmaller
          /\ (AskedR >= 0 /\ AskedR <= HalfSmaller => Built.radius = AskedR))
    /\ (lastOp.s = <<20, 10, 9>> => Built.radius = 5)
    /\ Built.radius = IF AskedR < 0 THEN 0 ELSE Min(AskedR, HalfSmaller)

\* A 20 x 10 widget asked for with radius 9 has been constructed with 5.
C11_Witness ==
  lastOp.op = "Button" /\ lastOp.s = <<20, 10, 9>> /\ Built.radius = 5

(***************************************************************************)
(* Ring buffer invariants (Spec)                                           *)
(***************************************************************************)
\* C12: with enqueue calls and print_process run one at a time, both
\* indices stay in 0..7, the number of accepted commands not yet forwarded
\* is (wr_ptr - rd_ptr) mod 8 and at most 7, is_buf_full() holds exactly
\* when that number is 7 and is_buf_empty() exactly when it is 0, and the
\* two never hold together.
C12_RingInvariant ==
  /\ rd_ptr \in 0..(MAX_NUM_OF_MSG - 1)
  /\ wr_ptr \in 0..(MAX_NUM_OF_MSG - 1)
  /\ Waiting = (wr_ptr - rd_ptr) % MAX_NUM_OF_MSG
  /\ Waiting <= MAX_NUM_OF_MSG - 1
  /\ (is_buf_full <=> Waiting = MAX_NUM_OF_MSG - 1)
  /\ (is_buf_empty <=> Waiting = 0)
  /\ ~(is_buf_full /\ is_buf_empty)

\* The buffer is full with the write index wrapped around behind the read
\* index.
C12_Witness ==
  /\ wr_ptr < rd_ptr
  /\ Waiting = MAX_NUM_OF_MSG - 1
  /\ is_buf_full
  /\ Len(hw) > 0

\* The last eight calls filled the queue from empty: seven were accepted
\* with nothing forwarded since the first of them, and the eighth was
\* dropped.
FilledThenDropped ==
  /\ Len(calls) >= MAX_NUM_OF_MSG
  /\ ~calls[Len(calls)].accepted
  /\ \A k \in (Len(calls) - MAX_NUM_OF_MSG + 1)..(Len(calls) - 1) : calls[k].accepted
  /\ Len(hw) = Len(AcceptedCalls) - (MAX_NUM_OF_MSG - 1)

\* C13 as stated: after the queue was filled from empty with 7 accepted
\* writes and a further write was dropped, is_buf_empty() is false and
\* is_buf_full() is false.
C13_AsStated == FilledThenDropped => ~is_buf_empty /\ ~is_buf_full

\* C13 (amended): after the queue was filled from empty with 7 accepted
\* writes and a further write was dropped, is_buf_empty() is false and
\* is_buf_full() is true, with 7 commands waiting.
C13_FullAfterFill ==
  FilledThenDropped => ~is_buf_empty /\ is_buf_full /\ Waiting = MAX_NUM_OF_MSG - 1

\* Seven writes were accepted from empty and the eighth was dropped.
C13_Witness == FilledThenDropped /\ is_buf_full /\ ~is_buf_empty

(***************************************************************************)
(* SpecLong: payloads shorter and longer than a slot                       *)
(***************************************************************************)
MaxLongCalls == 2      \* enqueue calls in the long payload specification

\* A formatted message and a rumble pattern of n characters.
MkText(n) == [i \in 1..n |-> 64 + i]
MkPattern(n) == [i \in 1..n |-> IF i % 2 = 1 THEN 46 ELSE 45]
TextLens == {2, 31, 32, 40}
PatternLens == {2, 34, 35, 40}
\* Positions callers pass: on the screen, and a row or a column above one
\* byte.
Positions == {<<1, 3>>, <<258, 3>>, <<1, 259>>}

LongCall ==
  \/ \E pos \in Positions, n \in TextLens : print(pos[1], pos[2], MkText(n))
  \/ \E n \in PatternLens : rumble(MkPattern(n))

NextLong ==
  \/ Len(calls) < MaxLongCalls /\ LongCall
  \/ print_process

SpecLong == Init /\ [][NextLong]_vars

\* The first n characters of s, or s when it is shorter.
Prefix(s, n) == SubSeq(s, 1, Min(Len(s), n))
\* The step is a print or rumble call.
PayloadStep ==
  Len(calls') = Len(calls) + 1 /\ lastOp'.op \in {"print", "rumble"}
\* The step wrote inside the slot at the write index and nowhere else.
OwnSlotOnly ==
  /\ wr_ptr' = (wr_ptr + 1) % MAX_NUM_OF_MSG
  /\ rd_ptr' = rd_ptr
  /\ DOMAIN buf' = DOMAIN buf
  /\ DOMAIN buf'[wr_ptr] = 0..(MAX_MSG_LEN - 1)
  /\ \A i \in DOMAIN buf : i # wr_ptr => buf'[i] = buf[i]
\* The text part of what is forwarded for the accepted call c as h.
TextForwarded(c, h) ==
  /\ c.op = "print" => h.k = "print" /\ h.s = Prefix(c.s, MAX_MSG_LEN - 5)
  /\ c.op = "rumble" => h = Hw("rumble", 0, 0, Prefix(c.s, MAX_MSG_LEN - 2))

\* C14 as stated: print and rumble with a payload of any length are
\* accepted whenever the buffer is not full, write only inside their own
\* slot, and the command forwarded carries the original row and column and
\* the first 31 characters of the text (34 of a rumble pattern), or the
\* whole string when it is shorter.
C14_AsStated ==
  [][/\ PayloadStep =>
          /\ ~is_buf_full => lastOp'.ok
          /\ lastOp'.ok => OwnSlotOnly
     /\ \A i \in 1..Len(hw') :
          /\ TextForwarded(AcceptedCalls'[i], hw'[i])
          /\ AcceptedCalls'[i].op = "print" =>
                hw'[i].row = AcceptedCalls'[i].row /\ hw'[i].col = AcceptedCalls'[i].col]_vars

\* C14 (amended): print and rumble with a payload of any length are
\* accepted whenever the buffer is not full, write only inside their own
\* slot, and the command forwarded carries the row and the column narrowed
\* to one byte (the original ones when they are in 0..127) and the first 31
\* characters of the text (34 of a rumble pattern), or the whole string
\* when it is shorter.
C14_Truncated ==
  [][/\ PayloadStep =>
          /\ ~is_buf_full => lastOp'.ok
          /\ lastOp'.ok => OwnSlotOnly
     /\ \A i \in 1..Len(hw') :
          /\ TextForwarded(AcceptedCalls'[i], hw'[i])
          /\ AcceptedCalls'[i].op = "print" =>
                /\ hw'[i].row \in IntOfChar(ToChar(AcceptedCalls'[i].row))
                /\ hw'[i].col \in IntOfChar(ToChar(AcceptedCalls'[i].col))
                /\ AcceptedCalls'[i].row \in 0..127 => hw'[i].row = AcceptedCalls'[i].row
                /\ AcceptedCalls'[i].col \in 0..127 => hw'[i].col = AcceptedCalls'[i].col]_vars

\* A 40 character text and a 40 character pattern were accepted and
\* forwarded cut to 31 and 34 characters.
C14_Witness ==
  /\ Len(hw) = 2
  /\ calls[1].op = "print" /\ Len(calls[1].s) = 40 /\ Len(hw[1].s) = 31
  /\ calls[2].op = "rumble" /\ Len(calls[2].s) = 40 /\ Len(hw[2].s) = 34

(***************************************************************************)
(* SpecImage: images drawn over what the screen shows                      *)
(***************************************************************************)
MaxDraws == 1          \* draw_image calls

\* Palette entries: opaque red, transparent green, half transparent, almost
\* transparent white, almost opaque blue.
Entries ==
  <<[r |-> 255, g |-> 0, b |-> 0, a |-> 255], [r |-> 0, g |-> 255, b |-> 0, a |-> 0],
    [r |-> 100, g |-> 200, b |-> 50, a |-> 128], [r |-> 255, g |-> 255, b |-> 255, a |-> 1],
    [r |-> 9, g |-> 99, b |-> 199, a |-> 254]>>
\* The 256 entries of a file: the ones above, then opaque black.
PaletteOf(es) ==
  [i \in 0..255 |-> IF i < Len(es) THEN es[i + 1] ELSE [r |-> 0, g |-> 0, b |-> 0, a |-> 255]]
Image(w, h, idx) ==
  [kind |-> "image", w |-> w, h |-> h, palette |-> PaletteOf(Entries), idx |-> idx]
\* The files on the card: w x h images with w * h index bytes, a file that
\* does not exist and one shorter than header and palette.
Files ==
  <<Image(2, 2, <<0, 1, 2, 3>>), Image(2, 2, <<1, 1, 1, 1>>), Image(2, 2, <<4, 0, 1, 2>>),
    Image(1, 2, <<2, 1>>), Image(2, 1, <<3, 4>>),
    [kind |-> "missing"], [kind |-> "short"]>>
\* Anchors: from the left and top edge, from the right and bottom edge,
\* centred.
Anchors == {<<0, 0>>, <<1, 0>>, <<-478, -237>>, <<CENTER, CENTER>>}
MAGENTA == 16711935
BgColors == {NO_BGCOLOR, MAGENTA, 5079117}
ClearColors == {MAGENTA, 255, 16777215}

NextImage ==
  \/ /\ nOps < MaxDraws
     /\ \/ \E fno \in 1..Len(Files), at \in Anchors, bgcolor \in BgColors :
             draw_image(TRUE, fno, Files[fno], at[1], at[2], bgcolor)
        \/ draw_image(FALSE, 1, Files[1], 0, 0, NO_BGCOLOR)
  \/ \E color \in ClearColors : clear_screen(color)

SpecImage == Init /\ [][NextImage]_vars

\* The step is a draw_image call that drew the image.
DrawStep == lastOp'.op = "draw_image" /\ lastOp'.ok /\ nOps' = nOps + 1
DrawnFile == Files[lastOp'.s[1]]
DrawnBg == lastOp'.s[2]
\* The screen position of the k-th index byte of the image drawn.
PixelPos(k) ==
  <<anchor(lastOp'.a, SCREEN_W, DrawnFile.w) + (k % DrawnFile.w),
    anchor(lastOp'.b, SCREEN_H, DrawnFile.h) + (k \div DrawnFile.w)>>
\* The draw_pixel calls the step made at position p.
DrawsAt(p) ==
  SelectSeq(dlog', LAMBDA d : d.k = "draw_pixel" /\ d.x = p[1] /\ d.y = p[2])
\* The background the step blends against: the bgcolor argument, or the
\* eraser colour when none is given.
BlendBg == IF DrawnBg # NO_BGCOLOR THEN DrawnBg ELSE eraser
\* src * alpha / 255 + bg * (255 - alpha) / 255 on each channel.
Blended(e) ==
  RGB((e.r * e.a) \div 255 + (Channel(BlendBg, 16) * (255 - e.a)) \div 255,
      (e.g * e.a) \div 255 + (Channel(BlendBg, 8) * (255 - e.a)) \div 255,
      (e.b * e.a) \div 255 + (Channel(BlendBg, 0) * (255 - e.a)) \div 255)
\* The pixel of an entry with alpha above 0 is drawn once, with colour c.
DrawnOnceWith(p, c) ==
  /\ DrawsAt(p) = <<DrawPixel(p[1], p[2], c)>>
  /\ p \in Pixels => screen'[p] = c
VisiblePixels ==
  \A k \in 0..(DrawnFile.w * DrawnFile.h - 1) :
    LET e == DrawnFile.palette[DrawnFile.idx[k + 1]]
    IN  /\ e.a = 255 => DrawnOnceWith(PixelPos(k), RGB(e.r, e.g, e.b))
        /\ e.a > 0 /\ e.a < 255 => DrawnOnceWith(PixelPos(k), Blended(e))
        /\ e.a = 0 => DrawsAt(PixelPos(k)) = <<>>

\* C15 as stated: a pixel of an entry with alpha 255 is drawn with the
\* entry's colour whatever the background, one with alpha between 0 and 255
\* with the blend src*alpha/255 + bg*(255-alpha)/255 of each channel, and
\* for one with alpha 0 no draw_pixel call is made and the screen pixel is
\* left as it was before the call.
C15_AsStated ==
  [][DrawStep =>
       /\ VisiblePixels
       /\ \A k \in 0..(DrawnFile.w * DrawnFile.h - 1) :
            DrawnFile.palette[DrawnFile.idx[k + 1]].a = 0 /\ PixelPos(k) \in Pixels =>
              screen'[PixelPos(k)] = screen[PixelPos(k)]]_vars

\* C15 (amended): a pixel of an entry with alpha 255 is drawn with the
\* entry's colour whatever the background, one with alpha between 0 and 255
\* with the blend src*alpha/255 + bg*(255-alpha)/255 of each channel, bg
\* being the bgcolor argument or, without one, the eraser colour; for one
\* with alpha 0 no draw_pixel call is made, and the screen pixel is left as
\* it was before the call when no bgcolor argument is given and shows
\* bgcolor otherwise, the image rectangle being erased to it first.
C15_AlphaBlend ==
  [][DrawStep =>
       /\ VisiblePixels
       /\ \A k \in 0..(DrawnFile.w * DrawnFile.h - 1) :
            DrawnFile.palette[DrawnFile.idx[k + 1]].a = 0 /\ PixelPos(k) \in Pixels =>
              screen'[PixelPos(k)] =
                IF DrawnBg # NO_BGCOLOR THEN DrawnBg ELSE screen[PixelPos(k)]]_vars

\* The first image was drawn at the top left on magenta: its opaque red
\* pixel is pure red, its transparent pixel shows magenta, its almost
\* transparent white pixel is a blend.
C15_Witness ==
  /\ lastOp.op = "draw_image" /\ lastOp.ok
  /\ lastOp.a = 0 /\ lastOp.b = 0 /\ lastOp.s = <<1, MAGENTA>>
  /\ screen[<<0, 0>>] = 16711680
  /\ screen[<<1, 0>>] = MAGENTA
  /\ screen[<<1, 1>>] \notin {MAGENTA, 16777215, BLACK}

(***************************************************************************)
(* SpecSpsc: one producer task and the poller, step by step                *)
(***************************************************************************)
MaxStepCalls == 9      \* enqueue calls the producer task makes
Producer == "p1"

\* The calls the producer task makes: clear() and print(1, 2, ...).
StepCall(t) ==
  \/ enq_check(t, "clear", -1, 0, <<>>)
  \/ enq_check(t, "print", 1, 2, TextA)

NextSpsc ==
  \/ Len(calls) < MaxStepCalls /\ StepCall(Producer)
  \/ enq_tag(Producer)
  \/ enq_payload(Producer)
  \/ enq_update(Producer)
  \/ pp_check
  \/ pp_read
  \/ pp_update

SpecSpsc == Init /\ [][NextSpsc]_vars

\* What is forwarded for the command an accepted call c stored (the rows,
\* columns and texts of StepCall fit their bytes).
StoredCommand(c) ==
  IF KindOf(c) = "clear" THEN Hw("clear", 0, 0, <<>>)
  ELSE IF KindOf(c) = "rumble" THEN Hw("rumble", 0, 0, c.s)
  ELSE Hw("print", c.row, c.col, c.s)
\* Accepted calls that have moved the write index, and commands forwarded
\* whose slot the read index has left.
Committed ==
  Len(AcceptedCalls) - Cardinality({t \in ProducerIds : producers[t].pc # "idle"})
Consumed == Len(hw) - (IF consumer.pc = "update" THEN 1 ELSE 0)
Quiet == consumer.pc = "idle" /\ \A t \in ProducerIds : producers[t].pc = "idle"
\* Every forwarded command is the one stored by the accepted call of the
\* same rank, none is forwarded before its call has moved the write index,
\* and the distance between the indices is the number of commands stored
\* and not yet consumed.
OrderedDelivery ==
  /\ Len(hw) <= Committed
  /\ \A i \in 1..Len(hw) : hw[i] = StoredCommand(AcceptedCalls[i])
  /\ (wr_ptr - rd_ptr) % MAX_NUM_OF_MSG = Committed - Consumed
  /\ Committed - Consumed \in 0..(MAX_NUM_OF_MSG - 1)
  /\ (Quiet /\ is_buf_empty => Len(hw) = Len(AcceptedCalls))

\* C16: with one producer task and the poller's print_process interleaved
\* step by step (full or empty check, slot store or read, index update),
\* every command the producer saw accepted is forwarded once, in call order
\* and with the content stored, the consumer never reads a slot that is
\* being written or not yet written, and the indices never pass each other.
C16_SpscOrder == OrderedDelivery

\* The producer is storing the command of its eighth call, accepted because
\* the poller had taken one out, while the poller has forwarded another and
\* not yet moved the read index.
C16_Witness ==
  /\ Len(calls) = MAX_NUM_OF_MSG /\ \A i \in 1..Len(calls) : calls[i].accepted
  /\ producers[Producer].pc = "payload"
  /\ consumer.pc = "update"
  /\ Len(hw) >= 2

(***************************************************************************)
(* SpecMpsc: two producer tasks and the poller, step by step               *)
(***************************************************************************)
MaxRaceCalls == 8      \* enqueue calls the two producer tasks make

\* One task prints again and again; the other makes a single rumble call,
\* at any point.
RaceCall ==
  \/ enq_check("p1", "print", 1, 2, TextA)
  \/ /\ \A i \in 1..Len(calls) : calls[i].op # "rumble"
     /\ enq_check("p2", "rumble", 0, 0, PatternA)

NextMpsc ==
  \/ Len(calls) < MaxRaceCalls /\ RaceCall
  \/ \E t \in ProducerIds : enq_tag(t)
  \/ \E t \in ProducerIds : enq_payload(t)
  \/ \E t \in ProducerIds : enq_update(t)
  \/ pp_check
  \/ pp_read
  \/ pp_update

SpecMpsc == Init /\ [][NextMpsc]_vars

\* C17: with two producer tasks whose calls interleave between the full
\* check, the slot store and the write index update, accepted commands are
\* lost only through calls that overlap: as long as no call was accepted
\* while another was in progress the single-producer guarantees hold, and
\* states where two overlapping calls stored into the same slot, or moved
\* the write index onto the read index with accepted commands undelivered,
\* are reachable.
C17_RaceNeedsOverlap == ~overlapped => OrderedDelivery

\* With six commands waiting both tasks passed the full check, stored into
\* the same slot and moved the write index: it is back on the read index,
\* the buffer reads as empty with eight accepted commands undelivered, and
\* the print stored by the first of the two calls is overwritten by the
\* rumble of the second.
C17_Witness ==
  /\ Quiet
  /\ Len(AcceptedCalls) = MAX_NUM_OF_MSG /\ Len(hw) = 0
  /\ is_buf_empty
  /\ AcceptedCalls[MAX_NUM_OF_MSG - 1].op = "print"
  /\ AcceptedCalls[MAX_NUM_OF_MSG].op = "rumble"
  /\ buf[(rd_ptr + MAX_NUM_OF_MSG - 2) % MAX_NUM_OF_MSG][0] = MSG_RUMBLE
  /\ buf[(rd_ptr + MAX_NUM_OF_MSG - 1) % MAX_NUM_OF_MSG][0] = Indet

(***************************************************************************)
(* SpecStart: start_task called by two tasks, step by step                 *)
(***************************************************************************)
NextStart ==
  \/ \E t \in StarterIds : st_check(t)
  \/ \E t \in StarterIds : st_create(t)
  \/ \E t \in 1..Len(tasks) :
       tasks[t].cycle < MaxCycles /\ task_poll(t, WatchedSample(FALSE))
  \/ \E t \in 1..Len(tasks) : task_drain(t)
  \/ \E t \in 1..Len(tasks) : task_delay(t)

SpecStart == Init /\ [][NextStart]_vars

\* C18 as stated: at most one poller task ever exists, also when two tasks
\* call start_task with the null test and the assignment interleaved.
C18_AsStated == Len(tasks) <= 1

(***************************************************************************)
(* SpecLive: the poller keeps cycling while the application enqueues       *)
(***************************************************************************)
MaxLiveCycles == 5     \* poller cycles observed
MaxLiveCalls == 2      \* enqueue calls

\* The cycle the poller is in; 0 before it is started.
PollerCycle == IF tasks = <<>> THEN 0 ELSE tasks[1].cycle

\* An enqueue call whose acceptance is timed: the poller cycle it falls in
\* and the number of commands waiting ahead.
Timed(eff, op, row, col, s) ==
  /\ Stored(eff, op, row, col, s)
  /\ stamps' = IF eff.wr_ptr # wr_ptr
                THEN Append(stamps, [cycle |-> PollerCycle, k |-> Waiting])
                ELSE stamps

LiveCall ==
  \/ Timed(clear_effect(-1), "clear", -1, 0, <<>>)
  \/ Timed(print_effect(1, 2, TextA), "print", 1, 2, TextA)
  \/ Timed(rumble_effect(PatternA), "rumble", 0, 0, PatternA)

\* One step of the poller: button_process, print_process in its turn, or the
\* divider and the delay.
PollerStep ==
  /\ tasks # <<>>
  /\ \/ tasks[1].cycle < MaxLiveCycles /\ task_poll(1, WatchedSample(FALSE))
     \/ task_drain(1)
     \/ task_delay(1)

\* The application starts the poller once and enqueues while the cycles
\* observed leave room for the commands to be forwarded.
NextLive ==
  \/ controller_task = 0 /\ start_task
  \/ PollerStep
  \/ /\ Len(calls) < MaxLiveCalls
     /\ PollerCycle + 2 * (Waiting + 1) < MaxLiveCycles
     /\ LiveCall

\* The task loop never ends and pros::delay returns: the poller, once
\* started, keeps taking steps.
SpecLive == Init /\ [][NextLive]_vars /\ WF_vars(PollerStep)

\* The i-th accepted command is still waiting only if fewer than
\* 2 * (k + 1) cycles have begun since it was accepted, or the last of them
\* has not reached its print_process yet.
InTime(i) ==
  LET d == PollerCycle - stamps[i].cycle
      limit == 2 * (stamps[i].k + 1)
  IN  Len(hw) < i =>
        \/ d < limit
        \/ d = limit /\ tasks # <<>> /\ tasks[1].pc \in {"poll", "drain"}
\* The step is a print_process invocation of the poller.
DrainStep ==
  /\ tasks # <<>> /\ tasks[1].pc = "drain" /\ tasks[1].disp_cnt = 0
  /\ tasks' # <<>> /\ tasks'[1].pc = "delay"

\* C20: while the poller keeps cycling, every accepted command is forwarded
\* in the end; each print_process invocation forwards the oldest waiting
\* command, so that a command accepted with k commands ahead leaves with
\* the (k+1)-th invocation after its acceptance, which comes within
\* 2 * (k + 1) poller cycles.
C20_ForwardedInTime ==
  /\ [](\A i \in 1..Len(stamps) : InTime(i))
  /\ [][DrainStep =>
          /\ Len(hw') = Len(hw) + (IF Waiting > 0 THEN 1 ELSE 0)
          /\ Waiting > 0 => hw'[Len(hw')].k = KindOf(AcceptedCalls[Len(hw')])]_vars
  /\ \A i \in 1..MaxLiveCalls :
       (Len(stamps) >= i /\ tasks # <<>>) ~> (Len(hw) >= i)

\* Two commands were accepted in cycle 0 after its print_process, the
\* second with one ahead of it, and the second has just been forwarded in
\* cycle 4.
C20_Witness ==
  /\ Len(stamps) = 2 /\ Len(hw) = 2
  /\ stamps[2].k = 1 /\ stamps[2].cycle = 0
  /\ tasks # <<>> /\ tasks[1].cycle = 4 /\ tasks[1].pc = "delay"

(***************************************************************************)
(* SpecHold: callbacks registered while a button is held or released       *)
(***************************************************************************)
\* The levels of a poll in which the watched button and the button after it
\* can read true.
PairSample(a, b) ==
  [id \in Range(ButtonIds) |-> (id = Watched /\ a) \/ (id = ButtonIds[2] /\ b)]

\* The application registers one press and one release callback for the
\* watched button, each at any moment between two polls.
NextHold ==
  \/ Len(hist) < MaxPolls /\ \E a, b \in BOOLEAN :
       button_process_recorded(PairSample(a, b))
  \/ ButtonOf(Watched).on_press = 0 /\ button_pressed(Watched, 1)
  \/ ButtonOf(Watched).on_release = 0 /\ button_released(Watched, 2)

SpecHold == Init /\ [][NextHold]_vars

\* The level the watched button had at the poll before the k-th; false
\* before the first poll, as last_state is initialised.
LevelBefore(k) == IF k = 1 THEN FALSE ELSE hist[k - 1].level

\* C21: after every button_process call each button's last_state is the
\* level sampled in that call, with or without a callback for the edge; so
\* a poll of a button that the poll before sampled true fires no press
\* callback, whenever it was registered, and a poll of a button that the
\* poll before sampled false (or that was never polled) fires no release
\* callback: a callback registered during a hold waits for the next edge.
C21_LevelAlwaysStored ==
  /\ lastOp.op = "button_process" =>
       \A id \in Range(ButtonIds) : ButtonOf(id).last_state = curSample[id]
  /\ \A k \in 1..Len(hist) :
       /\ hist[k].nPress = (IF hist[k].hadPress /\ hist[k].level /\ ~LevelBefore(k)
                            THEN 1 ELSE 0)
       /\ hist[k].nRelease = (IF hist[k].hadRelease /\ ~hist[k].level /\ LevelBefore(k)
                              THEN 1 ELSE 0)

\* C21 witness: the press callback was registered between two polls that
\* both sampled the watched button true and did not fire on the second; it
\* fired two polls later, after a poll that sampled false; the second
\* button meanwhile had an edge with no callback registered.
C21_Witness ==
  /\ Len(hist) >= 4
  /\ hist[1].level /\ ~hist[1].hadPress
  /\ hist[2].level /\ hist[2].hadPress /\ hist[2].nPress = 0
  /\ ~hist[3].level
  /\ hist[4].level /\ hist[4].nPress = 1
  /\ lastOp.op = "button_process"
  /\ curSample[ButtonIds[2]] /\ ~prevSample[ButtonIds[2]]

(***************************************************************************)
(* SpecChunks: images whose index bytes span several read chunks           *)
(***************************************************************************)
\* n index bytes that alternate between the almost opaque blue and the
\* opaque red entry, every one of them drawn.
Pattern(n) == [k \in 1..n |-> IF k % 2 = 0 THEN 0 ELSE 4]

\* Files with header and palette: 7 x 150 (the first chunk ends inside row
\* 145), 7 x 443 (three chunks), 1 x 1 and 7 x 146 followed by more index
\* bytes than w * h, the latter also with more than the second chunk holds,
\* 7 x 150 cut short, 2 x 2 with no index byte at all, and 3 x 0.
ChunkFiles ==
  <<Image(7, 150, Pattern(1050)), Image(7, 443, Pattern(3101)),
    Image(1, 1, Pattern(3)), Image(7, 146, Pattern(1030)), Image(7, 146, Pattern(3100)),
    Image(7, 150, Pattern(1030)), Image(2, 2, <<>>), Image(3, 0, Pattern(2))>>
ChunkAnchors == {<<0, 0>>, <<-470, -60>>, <<CENTER, CENTER>>}

\* Each image is drawn on a screen that is fresh or was just cleared.
NextChunks ==
  \/ /\ nOps < MaxDraws
     /\ lastOp.op # "draw_image"
     /\ \E fno \in 1..Len(ChunkFiles), at \in ChunkAnchors, bgcolor \in {NO_BGCOLOR, MAGENTA} :
          draw_image(TRUE, fno, ChunkFiles[fno], at[1], at[2], bgcolor)
  \/ \E color \in ClearColors : clear_screen(color)

SpecChunks == Init /\ [][NextChunks]_vars

\* The image a call drew, where its rectangle is, and its draw_pixel calls.
Drawn == ChunkFiles[lastOp.s[1]]
DrawnX0 == anchor(lastOp.a, SCREEN_W, Drawn.w)
DrawnY0 == anchor(lastOp.b, SCREEN_H, Drawn.h)
PixelCalls == SelectSeq(dlog, LAMBDA d : d.k = "draw_pixel")

\* The j-th draw_pixel call is for the index byte j - 1 (every byte of
\* ChunkFiles is drawn) and lies at column (j - 1) mod w and row
\* (j - 1) div w of the rectangle.
RowMajor ==
  LET px == PixelCalls
      w == Drawn.w
      x0 == DrawnX0
      y0 == DrawnY0
  IN  /\ Len(px) <= Len(Drawn.idx)
      /\ \A j \in 1..Len(px) :
            /\ px[j].x = x0 + ((j - 1) % w)
            /\ px[j].y = y0 + ((j - 1) \div w)
\* No draw_pixel call lies outside the w x h rectangle at the anchor.
InsideRectangle ==
  LET px == PixelCalls
      x0 == DrawnX0
      y0 == DrawnY0
      x1 == DrawnX0 + Drawn.w
      y1 == DrawnY0 + Drawn.h
  IN  \A j \in 1..Len(px) :
        /\ px[j].x >= x0 /\ px[j].x < x1
        /\ px[j].y >= y0 /\ px[j].y < y1

\* C22 as stated: for an image file with header and palette and w >= 1,
\* however many index bytes follow and wherever the read chunks fall, the
\* k-th index byte is drawn at column k mod w and row k div w, and no pixel
\* is drawn at a row >= h or a column >= w.
C22_AsStated ==
  (lastOp.op \in {"draw_image", "draw_image (no return)"} /\ lastOp.ok /\ Drawn.w >= 1) =>
    RowMajor /\ InsideRectangle

====
